---- MODULE Spec2Model ----
(***************************************************************************)
(* A model of novaprox: the DNS cache (dns_cache.rs), the proxy entity     *)
(* (proxy_config.rs), the resolve stage and the chunked verification stage *)
(* of the orchestrator (main.rs) and the configuration translator         *)
(* (xray_config.rs).                                                       *)
(*                                                                         *)
(* Conventions.  An Option<T> is a sequence of length at most one: <<>> is *)
(* None and <<x>> is Some(x).  A Result is a record with a field ok.  An   *)
(* IpAddr is a value of Addrs; its textual form (Display / FromStr) is a   *)
(* different value, related to it by IpToString and IpFromStr.  A line of  *)
(* text is the sequence of its whitespace-separated tokens.                *)
(***************************************************************************)
EXTENDS Integers, Sequences, FiniteSets, TLC

VARIABLES
    \* ---- DnsCache (dns_cache.rs) and its file
    cache,          \* DnsCache.cache: domain -> [ip, used]
    file,           \* contents of DnsCache.cache_file: <<>> (absent) or <<lines>>
    loaded,         \* the last value returned by load_cache
    ret,            \* the last value returned by get / insert
    instance,       \* which DnsCache instance on the file is current (1, 2)
    cstep,          \* position of the cache client
    nops,           \* number of get / insert calls made on the current instance
    touched,        \* instance 1: domain -> address, for every insert or get hit
    \* ---- resolve stage (main.rs resolve_proxies)
    urls,           \* the Vec<Url> given to resolve_proxies
    max_concurrent_dns,
    rpc,            \* per url: position of its resolution task
    rpermits,       \* free permits of the resolve semaphore
    rlookup,        \* per url: the address the pending live lookup returned
    raddr,          \* per url: Option of the address resolve_host returned
    rent,           \* per url: Option of the entity from_url built
    resolvedVec,    \* the collected Vec<ProxyConfig>, in completion order
    resolved,       \* the returned HashSet<ProxyConfig>
    spc,            \* position of resolve_proxies
    rlog,           \* the calls made on the shared cache, in order
    \* ---- configuration translator (xray_config.rs generate_xray_config)
    xin,            \* proxies: the chunk given to generate_xray_config
    xbase,          \* base_port
    xout,           \* the returned Result
    xpc,            \* "call" before the call, "done" after it
    \* ---- chunk verification (main.rs test_proxies_in_chunks)
    pinged,         \* pinged_proxies
    chunk_size,
    max_concurrent_checks,
    chunk_index,    \* index of the chunk the loop is at
    kpc,            \* position of test_proxies_in_chunks
    config,         \* Option of the document of the current chunk
    engine,         \* per chunk: "none", "live", "exited" or "killed"
    stdin,          \* input channel of the current engine: "none", "open", "closed"
    vpc,            \* per position of the chunk: position of its request task
    vpermits,       \* free permits of the check semaphore
    working_chunk,  \* the collected Vec of test_proxy_chunk
    all_working,
    result,         \* Option of the Vec test_proxies_in_chunks returns
    failure,        \* Option of <<cause, chunk index>> of the returned Err
    configs,        \* per chunk: Option of the document it was compiled to
    sent,           \* the requests made: [chunk, pos, port, ok]
    exitedEarly,    \* chunks whose engine try_wait found exited
    captured,       \* chunks whose engine output was read
    killIssued,     \* chunks whose engine kill() was called on
    events,         \* what was done to the engines and listeners, in order
    \* ---- short-id normalization (xray_config.rs normalize_shortid)
    sid_in,         \* shortid: the text given, a sequence of characters
    sid_out,        \* Option of the returned text
    sidpc,          \* "call" before the call, "done" after it
    \* ---- probe stage (main.rs ping_proxies, called twice by main)
    ping_count,     \* --ping-count
    max_concurrent_pings,
    ppass,          \* 0 before the stage, 1 and 2 in a pass, 3 after it
    pin,            \* per pass: the proxies given to ping_proxies
    ptask,          \* per pass and position: the task of that candidate
    pout,           \* per pass: the collected Vec<ProxyConfig>
    rttChoices,     \* what one echo probe may return in this network
    \* ---- the result file (main.rs save_results)
    out_file,       \* Option of the lines of the file
    opc,            \* "idle", then "written" or "failed"
    \* ---- endpoint parser (parse_url.rs parse_proxy_url)
    raw_line,       \* line: the line given, a sequence of tokens
    target_scheme,  \* --scheme
    param_filters,  \* the (key, value) pairs of --whitelist-params
    params_remove,  \* the keys of --remove-params
    parsed,         \* the returned Option<Url>
    parsepc         \* "call" before the call, "done" after it

cacheVars   == <<cache, file, loaded, ret, instance, cstep, nops, touched>>
resolveVars == <<urls, max_concurrent_dns, rpc, rpermits, rlookup, raddr, rent,
                 resolvedVec, resolved, spc, rlog>>
xrayVars    == <<xin, xbase, xout, xpc>>
chunkVars   == <<pinged, chunk_size, max_concurrent_checks, chunk_index, kpc,
                 config, engine, stdin, vpc, vpermits, working_chunk,
                 all_working, result, failure, configs, sent, exitedEarly,
                 captured, killIssued, events>>
sidVars     == <<sid_in, sid_out, sidpc>>
outVars     == <<out_file, opc>>
pingVars    == <<ping_count, max_concurrent_pings, ppass, pin, ptask, pout,
                 rttChoices>>
parseVars   == <<raw_line, target_scheme, param_filters, params_remove, parsed,
                 parsepc>>
extraVars   == <<sidVars, outVars, pingVars, parseVars>>
vars        == <<cacheVars, resolveVars, xrayVars, chunkVars, extraVars>>

(***************************************************************************)
(* Bounds of the model.                                                    *)
(***************************************************************************)
MaxOps == 3
MaxUrls == 2
MaxChunkLen == 3
MaxProxies == 3
MaxSidLen == 18
MaxPingCount == 3
MaxParams == 2

(***************************************************************************)
(* Text and addresses.                                                     *)
(***************************************************************************)
Addrs == {"A1", "A2"}

\* <IpAddr as Display>::fmt
IpToString(a) == IF a = "A1" THEN "10.0.0.1" ELSE "10.0.0.2"

\* <IpAddr as FromStr>::from_str, as an Option
IpFromStr(s) ==
    IF s = "10.0.0.1" THEN <<"A1">>
    ELSE IF s = "10.0.0.2" THEN <<"A2">>
    ELSE <<>>

\* str::to_lowercase on the texts of the model
ToLowercase(s) ==
    IF s = "H1" THEN "h1"
    ELSE IF s = "U" THEN "u"
    ELSE s

DomainNames == {"h1", "h2"}

(***************************************************************************)
(* DnsCache                                                                *)
(***************************************************************************)
EmptyMap == [d \in {} |-> <<>>]

\* HashMap::insert: the map with key d bound to value v
MapInsert(m, d, v) == [x \in (DOMAIN m) \cup {d} |-> IF x = d THEN v ELSE m[x]]

\* DnsCache::new
DnsCacheNew == EmptyMap

\* One line of the file as load_cache reads it: split_whitespace, the first
\* token is the domain, the second must parse as an address, the rest is
\* ignored.  The result is an Option of <<domain, entry>>.
ParseLine(line) ==
    IF Len(line) < 2 THEN <<>>
    ELSE IF IpFromStr(line[2]) = <<>> THEN <<>>
    ELSE << <<line[1], [ip |-> IpFromStr(line[2])[1], used |-> FALSE]>> >>

\* load_cache's try_fold over the parsed lines: later lines overwrite
RECURSIVE FoldLines(_, _)
FoldLines(lines, map) ==
    IF lines = <<>> THEN map
    ELSE LET p == ParseLine(Head(lines))
         IN  FoldLines(Tail(lines),
                       IF p = <<>> THEN map ELSE MapInsert(map, p[1][1], p[1][2]))

\* DnsCache::load_cache: the map it returns.  f is <<>> when the file does
\* not exist and <<lines>> when it does.
LoadCache(f) == IF f = <<>> THEN EmptyMap ELSE FoldLines(f[1], EmptyMap)

\* DnsCache::get: the returned Option and the cache afterwards
DnsCacheGetRet(c, d) == IF d \in DOMAIN c THEN <<c[d].ip>> ELSE <<>>
DnsCacheGet(c, d) ==
    IF d \in DOMAIN c THEN [c EXCEPT ![d].used = TRUE] ELSE c

\* DnsCache::insert: the returned Option and the cache afterwards
DnsCacheInsertRet(c, d, ip) == IF d \in DOMAIN c THEN <<c[d].ip>> ELSE <<>>
\* An insert that stores the entry without marking it used
DnsCacheInsertUnused(c, d, ip) == MapInsert(c, d, [ip |-> ip, used |-> FALSE])

DnsCacheInsert(c, d, ip) == MapInsert(c, d, [ip |-> ip, used |-> TRUE])

\* The line save writes for one entry: format!("{domain} {ip}")
FormatLine(d, e) == <<d, IpToString(e.ip)>>

\* All orders in which a HashMap may be iterated
Orderings(S) ==
    {s \in [1..Cardinality(S) -> S] : \A i, j \in DOMAIN s : i # j => s[i] # s[j]}

\* DnsCache::save: the file contents it may write (the used entries, in the
\* map's iteration order, joined by newlines)
SaveContents(c) ==
    LET usedKeys == {d \in DOMAIN c : c[d].used}
    IN  {[i \in DOMAIN o |-> FormatLine(o[i], c[o[i]])] : o \in Orderings(usedKeys)}

\* The texts a text of the model is cut to when only its first bytes are
\* written: its prefixes that are neither empty nor the whole text
TextPrefixes(s) ==
    CASE s \in {"h1", "h2"} -> {"h"}
      [] s \in {"10.0.0.1", "10.0.0.2"} ->
             {"1", "10", "10.", "10.0", "10.0.", "10.0.0", "10.0.0."}
      [] OTHER -> {}

\* What a line "{domain} {ip}" reads as when it is cut inside: a part of the
\* domain, the domain (with or without the space), the domain and a part of
\* the address
LinePrefixes(line) ==
    {<<p>> : p \in TextPrefixes(line[1])}
    \cup {<<line[1]>>}
    \cup {<<line[1], p>> : p \in TextPrefixes(line[2])}

\* fs::write(path, content) that fails in write_all: File::create has
\* truncated the file and some first bytes of the content, fewer than all of
\* them, were written.  The lines left: the first k lines whole, then nothing
\* or a part of the next line.
PartialContents(content) ==
    UNION {{SubSeq(content, 1, k)}
           \cup {SubSeq(content, 1, k) \o <<l>> : l \in LinePrefixes(content[k + 1])} :
           k \in 0..(Len(content) - 1)}

\* DnsCache::save returning Err: what the file may hold afterwards.  Either
\* File::create failed and the file is as it was, or a write failed and the
\* file holds a part of the content.
SaveFailures(f, c) ==
    {f} \cup {<<p>> : p \in UNION {PartialContents(content) : content \in SaveContents(c)}}

\* Files the run may find: none, an empty one, well-formed and malformed lines
InitFiles ==
    { <<>>,
      << <<>> >>,
      << << <<"h1", "10.0.0.1">> >> >>,
      << << <<"h1", "10.0.0.2">>, <<"h2", "10.0.0.1">> >> >>,
      << << <<"h1", "garbage">>, <<"h2">>, <<"h2", "10.0.0.2", "extra">> >> >> }

resolveIdle ==
    /\ urls = <<>>
    /\ max_concurrent_dns = 1
    /\ rpc = <<>>
    /\ rpermits = 0
    /\ rlookup = <<>>
    /\ raddr = <<>>
    /\ rent = <<>>
    /\ resolvedVec = <<>>
    /\ resolved = {}
    /\ spc = "idle"
    /\ rlog = <<>>

xrayIdle ==
    /\ xin = <<>>
    /\ xbase = 0
    /\ xout = <<>>
    /\ xpc = "idle"

chunkIdle ==
    /\ pinged = <<>>
    /\ chunk_size = 1
    /\ max_concurrent_checks = 1
    /\ chunk_index = 0
    /\ kpc = "idle"
    /\ config = <<>>
    /\ engine = <<>>
    /\ stdin = "none"
    /\ vpc = <<>>
    /\ vpermits = 0
    /\ working_chunk = <<>>
    /\ all_working = <<>>
    /\ result = <<>>
    /\ failure = <<>>
    /\ configs = <<>>
    /\ sent = {}
    /\ exitedEarly = {}
    /\ captured = {}
    /\ killIssued = {}
    /\ events = <<>>

sidIdle ==
    /\ sid_in = <<>>
    /\ sid_out = <<>>
    /\ sidpc = "idle"

outIdle ==
    /\ out_file = <<>>
    /\ opc = "idle"

pingIdle ==
    /\ ping_count = 0
    /\ max_concurrent_pings = 1
    /\ ppass = 0
    /\ pin = <<>>
    /\ ptask = <<>>
    /\ pout = <<>>
    /\ rttChoices = {}

parseIdle ==
    /\ raw_line = <<>>
    /\ target_scheme = ""
    /\ param_filters = <<>>
    /\ params_remove = <<>>
    /\ parsed = <<>>
    /\ parsepc = "idle"

extraIdle == sidIdle /\ outIdle /\ pingIdle /\ parseIdle

cacheIdle ==
    /\ cache = DnsCacheNew
    /\ file = <<>>
    /\ loaded = EmptyMap
    /\ ret = <<>>
    /\ instance = 1
    /\ cstep = "idle"
    /\ nops = 0
    /\ touched = EmptyMap

CacheInit ==
    /\ cache = DnsCacheNew
    /\ file \in InitFiles
    /\ loaded = EmptyMap
    /\ ret = <<>>
    /\ instance = 1
    /\ cstep = "new"
    /\ nops = 0
    /\ touched = EmptyMap
    /\ resolveIdle
    /\ xrayIdle
    /\ chunkIdle
    /\ extraIdle

\* main.rs 124: load_cache() is called and its value dropped; the call does
\* not assign self.cache
CacheLoad ==
    /\ cstep = "new"
    /\ loaded' = LoadCache(file)
    /\ cstep' = "loaded"
    /\ UNCHANGED <<cache, file, ret, instance, nops, touched, resolveVars, xrayVars, chunkVars, extraVars>>

CacheGet(d) ==
    /\ cstep = "loaded"
    /\ nops < MaxOps
    /\ ret' = DnsCacheGetRet(cache, d)
    /\ cache' = DnsCacheGet(cache, d)
    /\ nops' = nops + 1
    /\ touched' = IF instance = 1 /\ d \in DOMAIN cache
                  THEN MapInsert(touched, d, cache[d].ip)
                  ELSE touched
    /\ UNCHANGED <<file, loaded, instance, cstep, resolveVars, xrayVars, chunkVars, extraVars>>

CacheInsert(d, ip) ==
    /\ cstep = "loaded"
    /\ nops < MaxOps
    /\ ret' = DnsCacheInsertRet(cache, d, ip)
    /\ cache' = DnsCacheInsert(cache, d, ip)
    /\ nops' = nops + 1
    /\ touched' = IF instance = 1 THEN MapInsert(touched, d, ip) ELSE touched
    /\ UNCHANGED <<file, loaded, instance, cstep, resolveVars, xrayVars, chunkVars, extraVars>>

CacheSave ==
    /\ cstep = "loaded"
    /\ instance = 1
    /\ \E content \in SaveContents(cache) : file' = <<content>>
    /\ cstep' = "saved"
    /\ UNCHANGED <<cache, loaded, ret, instance, nops, touched, resolveVars, xrayVars, chunkVars, extraVars>>

\* save() returns Err: the run ends with the error
CacheSaveErr ==
    /\ cstep = "loaded"
    /\ instance = 1
    /\ file' \in SaveFailures(file, cache)
    /\ cstep' = "save_failed"
    /\ UNCHANGED <<cache, loaded, ret, instance, nops, touched, resolveVars, xrayVars, chunkVars, extraVars>>

\* A fresh DnsCache on the same file (the next run of the program)
CacheFresh ==
    /\ cstep = "saved"
    /\ instance = 1
    /\ cache' = DnsCacheNew
    /\ loaded' = EmptyMap
    /\ ret' = <<>>
    /\ instance' = 2
    /\ cstep' = "new"
    /\ nops' = 0
    /\ UNCHANGED <<file, touched, resolveVars, xrayVars, chunkVars, extraVars>>

CacheNext ==
    \/ CacheLoad
    \/ \E d \in DomainNames : CacheGet(d)
    \/ \E d \in DomainNames, ip \in Addrs : CacheInsert(d, ip)
    \/ CacheSave
    \/ CacheSaveErr
    \/ CacheFresh

SpecCache == CacheInit /\ [][CacheNext]_vars

(***************************************************************************)
(* Url and ProxyConfig (proxy_config.rs)                                   *)
(***************************************************************************)
\* url::Host: Domain(name) or an address literal
HostDomain(name) == [kind |-> "Domain", v |-> name]
HostIp(addr) == [kind |-> "Ip", v |-> addr]

\* What the code reads of a Url: scheme(), username(), host(), port() and
\* query_pairs()
MkUrl(scheme, username, host, port, query) ==
    [scheme |-> scheme, username |-> username, host |-> host, port |-> port,
     query |-> query]

\* LiteMap::get
LiteMapGet(m, k) == IF k \in DOMAIN m THEN <<m[k]>> ELSE <<>>

\* url.query_pairs().into_owned().collect::<LiteMap<_, _>>(): a later pair
\* overwrites an earlier one with the same key
RECURSIVE LiteMapCollect(_, _)
LiteMapCollect(pairs, m) ==
    IF pairs = <<>> THEN m
    ELSE LiteMapCollect(Tail(pairs), MapInsert(m, Head(pairs)[1], Head(pairs)[2]))

\* DEFAULT_PORTS and the unwrap_or(8080) of from_url
DefaultPort(scheme) ==
    CASE scheme \in {"http", "https"} -> 80
      [] scheme \in {"socks", "socks5"} -> 1080
      [] scheme = "shadowsocks" -> 8388
      [] scheme \in {"trojan", "vless", "vmess"} -> 443
      [] OTHER -> 8080

\* A from_url that keeps the unresolved host as the address
FromUrlUnresolved(url, resolved_addr) ==
    [address |-> url.host[1].v,
     port |-> IF url.port = <<>> THEN DefaultPort(url.scheme) ELSE url.port[1],
     protocol |-> ToLowercase(url.scheme),
     query_params |-> LiteMapCollect(url.query, EmptyMap),
     username |-> ToLowercase(url.username),
     ping |-> 0]

\* ProxyConfig::from_url
FromUrl(url, resolved_addr) ==
    [address |-> resolved_addr,
     port |-> IF url.port = <<>> THEN DefaultPort(url.scheme) ELSE url.port[1],
     protocol |-> ToLowercase(url.scheme),
     query_params |-> LiteMapCollect(url.query, EmptyMap),
     username |-> ToLowercase(url.username),
     ping |-> 0]

\* impl Hash for ProxyConfig: the values fed to the hasher
HashOf(p) ==
    <<p.address, p.port, p.protocol,
      LiteMapGet(p.query_params, "sni"),
      LiteMapGet(p.query_params, "pbk"),
      LiteMapGet(p.query_params, "extra"),
      p.username>>

\* #[derive(PartialEq, Eq)] on ProxyConfig: every field is compared
ProxyEq(p, q) ==
    /\ p.address = q.address
    /\ p.port = q.port
    /\ p.protocol = q.protocol
    /\ p.query_params = q.query_params
    /\ p.username = q.username
    /\ p.ping = q.ping

\* HashSet::insert: an element is a duplicate when an element with the same
\* hash compares equal
HashSetInsert(set, p) ==
    IF \E q \in set : HashOf(q) = HashOf(p) /\ ProxyEq(q, p)
    THEN set
    ELSE set \cup {p}

\* HashSet::from_iter
RECURSIVE HashSetFromIter(_, _)
HashSetFromIter(vec, set) ==
    IF vec = <<>> THEN set
    ELSE HashSetFromIter(Tail(vec), HashSetInsert(set, Head(vec)))

(***************************************************************************)
(* Streams of tasks (futures::StreamExt::buffer_unordered, collect)        *)
(***************************************************************************)
\* A buffer_unordered that takes a future whatever the number in flight
CanPullUnbounded(inflight, n) == TRUE

\* buffer_unordered(n) takes the next future of the stream only while fewer
\* than n are in flight
CanPull(inflight, n) == Cardinality(inflight) < n

\* A collect that returns as soon as it is polled
AllDoneAtOnce(pcs) == TRUE

\* collect().await returns when the stream has ended: every task is done
AllDone(pcs) == \A i \in DOMAIN pcs : pcs[i] = "done"

\* buffer_unordered(n) yields its end: the stream of tasks was polled to its
\* end, which takes room in the buffer (with n = 0 the stream is never
\* polled), and every task pulled has completed
StreamDone(pcs, n) == n > 0 /\ AllDone(pcs)

(***************************************************************************)
(* Resolve stage (main.rs resolve_proxies, resolve_and_create_config,      *)
(* resolve_host)                                                           *)
(***************************************************************************)
QReality == << <<"security", "reality">>, <<"sni", "a">>, <<"pbk", "b">>,
               <<"sid", <<"c">> >> >>
QPath    == QReality \o << <<"path", "/x">> >>
QRepeat  == << <<"sni", "z">> >> \o QReality

\* The candidate urls the stage is run on
TestUrls ==
    { MkUrl("vless", "u", <<HostDomain("h1")>>, <<443>>, QReality),
      MkUrl("vless", "u", <<HostDomain("h2")>>, <<443>>, QReality),
      MkUrl("vless", "u", <<HostDomain("h1")>>, <<443>>, QPath),
      MkUrl("vless", "U", <<HostDomain("H1")>>, <<443>>, QRepeat),
      MkUrl("vless", "u", <<HostDomain("10.0.0.2")>>, <<443>>, QReality),
      MkUrl("vless", "u", <<HostDomain("h2")>>, <<>>, QReality),
      MkUrl("vless", "u", <<>>, <<>>, QReality),
      MkUrl("socks", "u", <<HostIp("A1")>>, <<>>, <<>>) }

UrlSeqs == UNION {[1..n -> TestUrls] : n \in 0..MaxUrls}

ResolveFiles ==
    { <<>>,
      << << <<"h1", "10.0.0.2">>, <<"h2", "10.0.0.1">> >> >> }

\* resolve_host before any cache access: Some(addr) when the host is an
\* address literal (Host::Ipv4 / Ipv6, or a Domain that parses as IpAddr)
HostLiteral(host) ==
    IF host.kind = "Ip" THEN <<host.v>> ELSE IpFromStr(ToLowercase(host.v))

\* Tasks buffer_unordered has pulled from the stream and not yet completed
RInFlight == {i \in DOMAIN rpc : rpc[i] \notin {"queued", "done"}}

ResolveInit ==
    /\ cache = DnsCacheNew
    /\ file \in ResolveFiles
    /\ loaded = EmptyMap
    /\ ret = <<>>
    /\ instance = 1
    /\ cstep = "new"
    /\ nops = 0
    /\ touched = EmptyMap
    /\ urls \in UrlSeqs
    /\ max_concurrent_dns \in {1, 2}
    /\ rpc = [i \in DOMAIN urls |-> "queued"]
    /\ rpermits = max_concurrent_dns
    /\ rlookup = [i \in DOMAIN urls |-> <<>>]
    /\ raddr = [i \in DOMAIN urls |-> <<>>]
    /\ rent = [i \in DOMAIN urls |-> <<>>]
    /\ resolvedVec = <<>>
    /\ resolved = {}
    /\ spc = "resolving"
    /\ rlog = <<>>
    /\ xrayIdle
    /\ chunkIdle
    /\ extraIdle

\* The end of task i: resolve_host has returned r (an Option: <<>> is Err),
\* from_url builds the entity, the permit is dropped and the stream collects
\* the result (filter_map drops an Err).
TaskEnd(i, r) ==
    /\ rpc' = [rpc EXCEPT ![i] = "done"]
    /\ raddr' = [raddr EXCEPT ![i] = r]
    /\ rent' = [rent EXCEPT ![i] = IF r = <<>> THEN <<>> ELSE <<FromUrl(urls[i], r[1])>>]
    /\ resolvedVec' = IF r = <<>> THEN resolvedVec
                      ELSE Append(resolvedVec, FromUrl(urls[i], r[1]))

\* buffer_unordered(max_concurrent_dns) takes the next future of the stream
TaskPull(i) ==
    /\ cstep = "loaded"
    /\ spc = "resolving"
    /\ rpc[i] = "queued"
    /\ \A j \in DOMAIN rpc : j < i => rpc[j] # "queued"
    /\ CanPull(RInFlight, max_concurrent_dns)
    /\ rpc' = [rpc EXCEPT ![i] = "acquire"]
    /\ UNCHANGED <<cacheVars, urls, max_concurrent_dns, rlog, rpermits, rlookup, raddr,
                   rent, resolvedVec, resolved, spc>>
    /\ UNCHANGED <<xrayVars, chunkVars, extraVars>>

\* permit.acquire().await, then resolve_and_create_config up to the cache
\* lookup: no host is an error, a literal address is the result
TaskAcquire(i) ==
    /\ rpc[i] = "acquire"
    /\ rpermits > 0
    /\ IF urls[i].host = <<>>
       THEN TaskEnd(i, <<>>) /\ UNCHANGED rpermits
       ELSE IF HostLiteral(urls[i].host[1]) # <<>>
       THEN TaskEnd(i, HostLiteral(urls[i].host[1])) /\ UNCHANGED rpermits
       ELSE /\ rpc' = [rpc EXCEPT ![i] = "get"]
            /\ rpermits' = rpermits - 1
            /\ UNCHANGED <<raddr, rent, resolvedVec>>
    /\ UNCHANGED <<cacheVars, urls, max_concurrent_dns, rlog, rlookup, resolved, spc>>
    /\ UNCHANGED <<xrayVars, chunkVars, extraVars>>

\* dns_cache.lock().await.get(&domain_lower); on a miss the port is required
TaskGet(i) ==
    /\ rpc[i] = "get"
    /\ LET d == ToLowercase(urls[i].host[1].v)
           hit == DnsCacheGetRet(cache, d)
       IN  /\ cache' = DnsCacheGet(cache, d)
           /\ IF hit # <<>>
              THEN TaskEnd(i, hit) /\ rpermits' = rpermits + 1
              ELSE IF urls[i].port = <<>>
              THEN TaskEnd(i, <<>>) /\ rpermits' = rpermits + 1
              ELSE /\ rpc' = [rpc EXCEPT ![i] = "lookup"]
                   /\ UNCHANGED <<rpermits, raddr, rent, resolvedVec>>
    /\ UNCHANGED <<file, loaded, ret, instance, cstep, nops, touched, urls,
                   max_concurrent_dns, rlookup, resolved, spc>>
    /\ rlog' = Append(rlog, <<"get", i>>)
    /\ UNCHANGED <<xrayVars, chunkVars, extraVars>>

\* tokio::net::lookup_host(...).await: it fails, yields no address, or yields
\* a first address
TaskLookup(i) ==
    /\ rpc[i] = "lookup"
    /\ \E r \in {<<>>} \cup {<<a>> : a \in Addrs} :
         IF r = <<>>
         THEN TaskEnd(i, <<>>) /\ rpermits' = rpermits + 1 /\ UNCHANGED rlookup
         ELSE /\ rpc' = [rpc EXCEPT ![i] = "insert"]
              /\ rlookup' = [rlookup EXCEPT ![i] = r]
              /\ UNCHANGED <<rpermits, raddr, rent, resolvedVec>>
    /\ UNCHANGED <<cacheVars, urls, max_concurrent_dns, rlog, resolved, spc>>
    /\ UNCHANGED <<xrayVars, chunkVars, extraVars>>

\* dns_cache.lock().await.insert(domain_lower, resolved_addr)
TaskInsert(i) ==
    /\ rpc[i] = "insert"
    /\ cache' = DnsCacheInsert(cache, ToLowercase(urls[i].host[1].v), rlookup[i][1])
    /\ TaskEnd(i, rlookup[i])
    /\ rpermits' = rpermits + 1
    /\ UNCHANGED <<file, loaded, ret, instance, cstep, nops, touched, urls,
                   max_concurrent_dns, rlookup, resolved, spc>>
    /\ rlog' = Append(rlog, <<"insert", i>>)
    /\ UNCHANGED <<xrayVars, chunkVars, extraVars>>

\* After collect: dns_cache.lock().await.save()? succeeds, and the set is
\* built from the collected entities
ResolveSaveOk ==
    /\ cstep = "loaded"
    /\ spc = "resolving"
    /\ StreamDone(rpc, max_concurrent_dns)
    /\ \E content \in SaveContents(cache) : file' = <<content>>
    /\ resolved' = HashSetFromIter(resolvedVec, {})
    /\ spc' = "done"
    /\ UNCHANGED <<cache, loaded, ret, instance, cstep, nops, touched, urls,
                   max_concurrent_dns, rpc, rpermits, rlookup, raddr, rent,
                   resolvedVec>>
    /\ rlog' = Append(rlog, <<"save", 0>>)
    /\ UNCHANGED <<xrayVars, chunkVars, extraVars>>

\* save()? fails: resolve_proxies returns the error and main ends
ResolveSaveErr ==
    /\ cstep = "loaded"
    /\ spc = "resolving"
    /\ StreamDone(rpc, max_concurrent_dns)
    /\ file' \in SaveFailures(file, cache)
    /\ spc' = "failed"
    /\ UNCHANGED <<cache, loaded, ret, instance, cstep, nops, touched, urls,
                   max_concurrent_dns, rpc, rpermits, rlookup, raddr, rent,
                   resolvedVec, resolved>>
    /\ rlog' = Append(rlog, <<"save", 0>>)
    /\ UNCHANGED <<xrayVars, chunkVars, extraVars>>

ResolveNext ==
    \/ CacheLoad
    \/ \E i \in DOMAIN urls : TaskPull(i)
    \/ \E i \in DOMAIN urls : TaskAcquire(i)
    \/ \E i \in DOMAIN urls : TaskGet(i)
    \/ \E i \in DOMAIN urls : TaskLookup(i)
    \/ \E i \in DOMAIN urls : TaskInsert(i)
    \/ ResolveSaveOk
    \/ ResolveSaveErr

SpecResolve == ResolveInit /\ [][ResolveNext]_vars

\* C1: round trip.  In a fresh cache on the saved file, after load, get(d)
\* returns the address the saving run stored for every domain d that the
\* saving run inserted or read.
C1_RoundTrip ==
    (instance = 2 /\ cstep = "loaded") =>
        \A d \in DOMAIN touched : DnsCacheGetRet(cache, d) = <<touched[d]>>

\* The lines of a file, as a set
LineSet(f) == IF f = <<>> THEN {} ELSE {f[1][i] : i \in DOMAIN f[1]}

\* C12: self-pruning cache.  After load, gets and inserts, save leaves in the
\* file exactly the entries whose used flag is set, one line each, and these
\* are the domains a get hit or an insert stored, with the address last
\* stored; a domain that was in the file at load and was neither hit nor
\* inserted is in no line of the saved file and in no cache reloaded from it.
C12_SelfPruning ==
    (instance = 1 /\ cstep = "saved") =>
        LET usedKeys == {d \in DOMAIN cache : cache[d].used}
        IN  /\ file # <<>>
            /\ LineSet(file) = {FormatLine(d, cache[d]) : d \in usedKeys}
            /\ Len(file[1]) = Cardinality(usedKeys)
            /\ usedKeys = DOMAIN touched
            /\ \A d \in usedKeys : cache[d].ip = touched[d]
            /\ DOMAIN LoadCache(file) = usedKeys
            /\ \A d \in (DOMAIN loaded) \ (DOMAIN touched) :
                   /\ d \notin DOMAIN LoadCache(file)
                   /\ \A l \in LineSet(file) : l[1] # d

\* C12 witness: the file held two domains at load, one of them was inserted
\* again and then hit by a get, the other was left alone, and save has run
C12_Witness ==
    /\ instance = 1
    /\ cstep = "saved"
    /\ DOMAIN loaded = {"h1", "h2"}
    /\ DOMAIN touched = {"h1"}
    /\ nops >= 2
    /\ LineSet(file) = {<<"h1", IpToString(touched["h1"])>>}

\* C21: cache operation effects.  A get that misses leaves the cache as it
\* was; a get that hits sets the used flag of its domain and changes nothing
\* else; an insert changes the entry of its domain only, to the address given
\* with used set, and returns the address stored before, if any; save changes
\* no entry; and within one run an entry that is used stays, and stays used.
C21_OperationEffects ==
    [][ /\ \A d \in DomainNames :
               CacheGet(d) =>
                   IF d \notin DOMAIN cache
                   THEN cache' = cache /\ ret' = <<>>
                   ELSE /\ DOMAIN cache' = DOMAIN cache
                        /\ cache'[d].used
                        /\ cache'[d].ip = cache[d].ip
                        /\ \A e \in DOMAIN cache \ {d} : cache'[e] = cache[e]
                        /\ ret' = <<cache[d].ip>>
        /\ \A d \in DomainNames, ip \in Addrs :
               CacheInsert(d, ip) =>
                   /\ DOMAIN cache' = DOMAIN cache \cup {d}
                   /\ cache'[d].ip = ip
                   /\ cache'[d].used
                   /\ \A e \in DOMAIN cache \ {d} : cache'[e] = cache[e]
                   /\ ret' = IF d \in DOMAIN cache THEN <<cache[d].ip>> ELSE <<>>
        /\ (CacheSave \/ CacheSaveErr) => cache' = cache
        /\ instance' = instance =>
               \A d \in DOMAIN cache :
                   cache[d].used => (d \in DOMAIN cache' /\ cache'[d].used)
      ]_vars

\* C21 witness: with two domains in the cache, the last of three operations
\* returned the address stored for its domain (a hit, or an insert over an
\* entry), and the cache was then saved
C21_Witness ==
    /\ instance = 1
    /\ cstep = "saved"
    /\ nops = 3
    /\ Cardinality(DOMAIN cache) = 2
    /\ ret # <<>>

(***************************************************************************)
(* Claims about the resolve stage                                          *)
(***************************************************************************)
\* The identity of an entity for deduplication, as the specification gives it
IdentityTuple(p) ==
    <<p.address, p.port, p.protocol, LiteMapGet(p.query_params, "sni"),
      LiteMapGet(p.query_params, "pbk"), LiteMapGet(p.query_params, "extra"),
      p.username>>

\* Two candidates with the same protocol, credential, port and query
\* parameters that differ in host name only
SameButHost(u, v) ==
    /\ u.scheme = v.scheme
    /\ u.username = v.username
    /\ u.port = v.port
    /\ u.query = v.query
    /\ u.host # <<>>
    /\ v.host # <<>>
    /\ u.host # v.host

\* C2: deduplication by identity.  After the resolve stage the resolved set
\* never holds two entities with the same identity tuple (address, port,
\* protocol, sni, pbk, extra, credential).
C2_IdentityUnique ==
    spc = "done" =>
        \A p, q \in resolved : IdentityTuple(p) = IdentityTuple(q) => p = q

\* C3: end-to-end deduplication.  Two candidates that differ only in host
\* name and resolve to the same address are one entity of the resolved set;
\* for a batch of these two candidates the set has size 1.
C3_SameAddressCollapses ==
    spc = "done" =>
        \A i, j \in DOMAIN urls :
            (/\ i # j
             /\ SameButHost(urls[i], urls[j])
             /\ raddr[i] # <<>>
             /\ raddr[i] = raddr[j])
            => /\ rent[i] # <<>>
               /\ rent[i] = rent[j]
               /\ rent[i][1] \in resolved
               /\ (Len(urls) = 2 => Cardinality(resolved) = 1)

\* C3 witness: a batch of two candidates differing in host name only, both
\* looked up and resolved to one address, deduplicated to a set of size 1
C3_Witness ==
    /\ spc = "done"
    /\ Len(urls) = 2
    /\ SameButHost(urls[1], urls[2])
    /\ HostLiteral(urls[1].host[1]) = <<>>
    /\ HostLiteral(urls[2].host[1]) = <<>>
    /\ raddr[1] # <<>>
    /\ raddr[1] = raddr[2]
    /\ Cardinality(resolved) = 1

(***************************************************************************)
(* Short-id normalization (xray_config.rs normalize_shortid)                *)
(*                                                                         *)
(* A text is the sequence of its characters.  One character of the model   *)
(* is not ASCII and takes two bytes in UTF-8.                              *)
(***************************************************************************)
HexDigits ==
    {"0", "1", "2", "3", "4", "5", "6", "7", "8", "9",
     "a", "b", "c", "d", "e", "f", "A", "F"}

\* char::is_ascii_hexdigit
IsAsciiHexdigit(c) == c \in HexDigits

\* char::is_whitespace
IsWhitespace(c) == c \in {" ", "\t"}

\* The number of bytes of a character in UTF-8
Utf8Len(c) == IF c = "é" THEN 2 ELSE 1

\* str::len: the length in bytes
RECURSIVE StrLen(_)
StrLen(s) == IF s = <<>> THEN 0 ELSE Utf8Len(Head(s)) + StrLen(Tail(s))

\* str::trim_start, str::trim_end, str::trim
RECURSIVE TrimStart(_)
TrimStart(s) ==
    IF s # <<>> /\ IsWhitespace(Head(s)) THEN TrimStart(Tail(s)) ELSE s

RECURSIVE TrimEnd(_)
TrimEnd(s) ==
    IF s # <<>> /\ IsWhitespace(s[Len(s)])
    THEN TrimEnd(SubSeq(s, 1, Len(s) - 1))
    ELSE s

Trim(s) == TrimEnd(TrimStart(s))

\* s.chars().take(n).collect::<String>()
RECURSIVE CharsTake(_, _)
CharsTake(s, n) ==
    IF n = 0 \/ s = <<>> THEN <<>> ELSE <<Head(s)>> \o CharsTake(Tail(s), n - 1)

\* The number of characters normalize_shortid keeps
ShortidTake == 16

\* A normalize_shortid that looks for a non-hex character before it trims
\* and truncates
NormalizeShortidCheckFirst(shortid) ==
    IF \E i \in DOMAIN shortid : ~IsAsciiHexdigit(shortid[i])
    THEN <<"0", "0">>
    ELSE CharsTake(IF StrLen(shortid) % 2 = 1 THEN <<"0">> \o shortid ELSE shortid,
                   ShortidTake)

\* normalize_shortid
NormalizeShortid(shortid) ==
    LET s1 == Trim(shortid)
        s2 == IF StrLen(s1) % 2 = 1 THEN <<"0">> \o s1 ELSE s1
        s3 == CharsTake(s2, ShortidTake)
    IN  IF \A i \in DOMAIN s3 : IsAsciiHexdigit(s3[i]) THEN s3 ELSE <<"0", "0">>

\* The texts normalize_shortid is called on: hex texts of every length up to
\* the bound, with one character replaced by a non-hex one or not, and with
\* white space in front or behind or not
HexText(n) == [i \in 1..n |-> <<"0", "1", "2", "3", "4", "5", "6", "7", "8", "9",
                                "a", "b", "c", "d", "e", "f">>[((i - 1) % 16) + 1]]

ShortidInputs ==
    LET bodies == {HexText(n) : n \in 0..MaxSidLen}
                  \cup {[HexText(n) EXCEPT ![k] = c] :
                           n \in 1..MaxSidLen, k \in 1..MaxSidLen,
                           c \in {"g", "é", " ", "A"}}
                  \cup {<<"a", "b", "c">>}
    IN  {pre \o b \o post : pre \in {<<>>, <<" ">>}, b \in bodies,
                            post \in {<<>>, <<"\t">>}}

ShortidInit ==
    /\ cacheIdle
    /\ resolveIdle
    /\ xrayIdle
    /\ chunkIdle
    /\ outIdle
    /\ pingIdle
    /\ parseIdle
    /\ sid_in \in ShortidInputs
    /\ sid_out = <<>>
    /\ sidpc = "call"

\* One call of normalize_shortid
ShortidNormalize ==
    /\ sidpc = "call"
    /\ sid_out' = <<NormalizeShortid(sid_in)>>
    /\ sidpc' = "done"
    /\ UNCHANGED <<sid_in, cacheVars, resolveVars, xrayVars, chunkVars, outVars,
                   pingVars, parseVars>>

ShortidNext == ShortidNormalize

SpecShortid == ShortidInit /\ [][ShortidNext]_vars

(***************************************************************************)
(* Claims about short-id normalization                                     *)
(***************************************************************************)
\* C13: short-id normalization as first stated.  A text with any non-hex
\* character gives "00"; a text of hex digits only is left-padded with one
\* "0" when its length is odd and cut to its first 16 characters when it is
\* longer than 16.
C13_AnyNonHexGivesZero ==
    sidpc = "done" =>
        IF \E i \in DOMAIN sid_in : sid_in[i] \notin HexDigits
        THEN sid_out[1] = <<"0", "0">>
        ELSE /\ Len(sid_in) > 16 => sid_out[1] = SubSeq(sid_in, 1, 16)
             /\ (Len(sid_in) <= 16 /\ Len(sid_in) % 2 = 1)
                    => sid_out[1] = <<"0">> \o sid_in
             /\ (Len(sid_in) <= 16 /\ Len(sid_in) % 2 = 0) => sid_out[1] = sid_in

\* The bytes a text takes
TextBytes(t) ==
    Len(t) + Cardinality({i \in DOMAIN t : t[i] = "é"})

\* C13, amended: the steps are taken in order.  The text without the white
\* space around it is left-padded with one "0" when its length in bytes is
\* odd, then cut to its first 16 characters; the result is "00" when what is
\* left holds a non-hex character, and what is left otherwise.
C13_NormalizeInOrder ==
    sidpc = "done" =>
        LET inner == {i \in DOMAIN sid_in : sid_in[i] \notin {" ", "\t"}}
            lo == CHOOSE i \in inner : \A j \in inner : i <= j
            hi == CHOOSE i \in inner : \A j \in inner : j <= i
            t == IF inner = {} THEN <<>> ELSE [i \in 1..(hi - lo + 1) |-> sid_in[lo + i - 1]]
            p == IF TextBytes(t) % 2 = 1
                 THEN [i \in 1..(Len(t) + 1) |-> IF i = 1 THEN "0" ELSE t[i - 1]]
                 ELSE t
            r == [i \in 1..(IF Len(p) < 16 THEN Len(p) ELSE 16) |-> p[i]]
        IN  sid_out[1] = IF \E i \in DOMAIN r : r[i] \notin HexDigits
                         THEN <<"0", "0">>
                         ELSE r

\* C13 witness: white space, then seventeen hex digits: the text is trimmed,
\* padded to eighteen and cut to sixteen
C13_Witness ==
    /\ sidpc = "done"
    /\ sid_in = <<" ">> \o HexText(17)
    /\ sid_out = << <<"0">> \o HexText(15) >>

(***************************************************************************)
(* Configuration translator (xray_config.rs)                               *)
(*                                                                         *)
(* A JSON object is a function from its keys, a JSON array a sequence.     *)
(* A formatted tag is the tuple of the pieces format! joins.  Positions    *)
(* are those of the code (from 0): the candidate at position i is          *)
(* proxies[i + 1].                                                         *)
(***************************************************************************)
\* str::parse::<u32>() on the texts of the model, as an Option: a sign "+" is
\* read, a sign "-" is not
ParseU32(s) ==
    IF s = "0" THEN <<0>>
    ELSE IF s \in {"8", "+8"} THEN <<8>>
    ELSE <<>>

\* str::parse::<i32>() on the texts of the model, as an Option: either sign
\* is read
ParseI32(s) ==
    IF s = "0" THEN <<0>>
    ELSE IF s \in {"8", "+8"} THEN <<8>>
    ELSE IF s = "-1" THEN <<-1>>
    ELSE <<>>

\* format!("socks-in-{i}")
InboundTag(i) == <<"socks-in-", i>>

\* format!("{prefix}-out-{index}")
OutboundTag(prefix, index) == <<prefix, "-out-", index>>

\* The loop of create_common_server_settings over the parameter names
RECURSIVE CopyFields(_, _, _)
CopyFields(settings, fields, query_params) ==
    IF fields = <<>> THEN settings
    ELSE LET param == Head(fields)
             value == LiteMapGet(query_params, param)
         IN  CopyFields(
                 IF value = <<>> THEN settings
                 ELSE MapInsert(settings, param,
                                IF param = "level"
                                THEN (IF ParseU32(value[1]) = <<>> THEN 0
                                      ELSE ParseU32(value[1])[1])
                                ELSE value[1]),
                 Tail(fields), query_params)

\* create_common_server_settings
CreateCommonServerSettings(proxy, additional_fields) ==
    CopyFields([address |-> IpToString(proxy.address), port |-> proxy.port],
               <<"user", "pass", "level", "email">> \o additional_fields,
               proxy.query_params)

\* create_http_outbound
CreateHttpOutbound(proxy, index) ==
    [protocol |-> "http",
     settings |-> CreateCommonServerSettings(proxy, <<"user", "pass">>),
     tag |-> OutboundTag("http", index)]

\* create_socks_outbound
CreateSocksOutbound(proxy, index) ==
    [protocol |-> "socks",
     settings |-> CreateCommonServerSettings(proxy, <<"user", "pass">>),
     tag |-> OutboundTag("socks", index)]

\* create_shadowsocks_outbound
CreateShadowsocksOutbound(proxy, index) ==
    LET s0 == CreateCommonServerSettings(proxy, <<>>)
        method == LiteMapGet(proxy.query_params, "method")
        s1 == MapInsert(s0, "method",
                        IF method # <<>> THEN method[1] ELSE "aes-256-gcm")
        s2 == MapInsert(s1, "password", proxy.username)
        uot == LiteMapGet(proxy.query_params, "uot")
        s3 == IF uot # <<>> THEN MapInsert(s2, "uot", uot[1] = "true") ELSE s2
        ver == LiteMapGet(proxy.query_params, "UoTVersion")
        s4 == IF ver # <<>> /\ ParseU32(ver[1]) # <<>>
              THEN MapInsert(s3, "UoTVersion", ParseU32(ver[1])[1])
              ELSE s3
    IN  [protocol |-> "shadowsocks", settings |-> s4,
         tag |-> OutboundTag("ss", index)]

\* value.split('=').next() on the texts of the model: the text before the
\* first '='
SplitEqFirst(v) == IF v = "a=x" THEN "a" ELSE v

\* percent_decode_str(path).decode_utf8_lossy() on the texts of the model
PercentDecode(v) == IF v = "%2Fws" THEN "/ws" ELSE v

\* alpn.split(',').collect() on the texts of the model
SplitComma(v) == IF v = "h2,http/1.1" THEN <<"h2", "http/1.1">> ELSE <<v>>

\* serde_json::from_str::<Value>(headers) on the texts of the model, as an
\* Option
JsonFromStr(v) == IF v = "{}" THEN <<EmptyMap>> ELSE <<>>

\* map_reality_field
MapRealityField(param) ==
    CASE param = "sni" -> "serverName"
      [] param = "pbk" -> "publicKey"
      [] param = "sid" -> "shortId"
      [] OTHER -> param

\* The loops that copy a parameter to a field when it is present: pairs is
\* the sequence of <<field, param>>
RECURSIVE CopyPresent(_, _, _)
CopyPresent(settings, pairs, query_params) ==
    IF pairs = <<>> THEN settings
    ELSE LET value == LiteMapGet(query_params, Head(pairs)[2])
         IN  CopyPresent(IF value = <<>> THEN settings
                         ELSE MapInsert(settings, Head(pairs)[1], value[1]),
                         Tail(pairs), query_params)

\* The loops that copy a parameter when it parses as u32
RECURSIVE CopyNumeric(_, _, _)
CopyNumeric(settings, pairs, query_params) ==
    IF pairs = <<>> THEN settings
    ELSE LET value == LiteMapGet(query_params, Head(pairs)[2])
         IN  CopyNumeric(IF value = <<>> \/ ParseU32(value[1]) = <<>> THEN settings
                         ELSE MapInsert(settings, Head(pairs)[1], ParseU32(value[1])[1]),
                         Tail(pairs), query_params)

\* The loop that copies a parameter as the flag value == "true"
RECURSIVE CopyBool(_, _, _)
CopyBool(settings, pairs, query_params) ==
    IF pairs = <<>> THEN settings
    ELSE LET value == LiteMapGet(query_params, Head(pairs)[2])
         IN  CopyBool(IF value = <<>> THEN settings
                      ELSE MapInsert(settings, Head(pairs)[1], value[1] = "true"),
                      Tail(pairs), query_params)

\* The loop of create_reality_settings over the required parameters
RECURSIVE CopyRequired(_, _, _)
CopyRequired(settings, params, query_params) ==
    IF params = <<>> THEN settings
    ELSE LET param == Head(params)
             value == LiteMapGet(query_params, param)
         IN  CopyRequired(
                 IF value = <<>> THEN settings
                 ELSE MapInsert(settings, MapRealityField(param),
                                IF param = "sid" THEN NormalizeShortid(value[1])
                                ELSE SplitEqFirst(value[1])),
                 Tail(params), query_params)

\* The rest of create_reality_settings, after the required parameters
RealityOptional(settings, query_params) ==
    CopyNumeric(
        CopyPresent(settings,
                    << <<"fingerprint", "fp">>, <<"spiderX", "spx">>,
                       <<"privateKey", "privateKey">> >>,
                    query_params),
        << <<"xver", "xver">> >>, query_params)

\* A create_reality_settings that emits what it has of the required parameters
CreateRealitySettingsPartial(query_params) ==
    <<RealityOptional(CopyRequired(EmptyMap, <<"sni", "pbk", "sid">>, query_params),
                      query_params)>>

\* create_reality_settings, as an Option
CreateRealitySettings(query_params) ==
    IF ~(\A param \in {"sni", "pbk", "sid"} : LiteMapGet(query_params, param) # <<>>)
    THEN <<>>
    ELSE <<RealityOptional(CopyRequired(EmptyMap, <<"sni", "pbk", "sid">>, query_params),
                           query_params)>>

\* create_tls_settings, as an Option
CreateTlsSettings(query_params) ==
    LET sni == LiteMapGet(query_params, "sni")
        alpn == LiteMapGet(query_params, "alpn")
        s1 == MapInsert(EmptyMap, "serverName", sni[1])
        s2 == IF alpn # <<>> THEN MapInsert(s1, "alpn", SplitComma(alpn[1])) ELSE s1
    IN  IF sni = <<>> THEN <<>>
        ELSE <<CopyPresent(s2, << <<"fingerprint", "fp">> >>, query_params)>>

\* create_xhttp_extra
CreateXhttpExtra(query_params) ==
    LET headers == LiteMapGet(query_params, "headers")
        e1 == IF headers # <<>> /\ JsonFromStr(headers[1]) # <<>>
              THEN MapInsert(EmptyMap, "headers", JsonFromStr(headers[1])[1])
              ELSE EmptyMap
        e2 == CopyNumeric(e1, << <<"xPaddingBytes", "xPaddingBytes">>,
                                 <<"scMaxEachPostBytes", "scMaxEachPostBytes">>,
                                 <<"scMinPostsIntervalMs", "scMinPostsIntervalMs">>,
                                 <<"scMaxBufferedPosts", "scMaxBufferedPosts">> >>,
                          query_params)
        e3 == CopyBool(e2, << <<"noGRPCHeader", "noGRPCHeader">>,
                              <<"noSSEHeader", "noSSEHeader">> >>, query_params)
    IN  CopyPresent(e3, << <<"scStreamUpServerSecs", "scStreamUpServerSecs">> >>,
                    query_params)

\* apply_network_settings: the block after it
ApplyNetworkSettings(stream_settings, query_params, network) ==
    LET path == LiteMapGet(query_params, "path")
        host == LiteMapGet(query_params, "host")
        service_name == LiteMapGet(query_params, "serviceName")
        mode == LiteMapGet(query_params, "mode")
        ws0 == MapInsert(EmptyMap, "path", PercentDecode(path[1]))
        ws == IF host # <<>> THEN MapInsert(ws0, "headers", [Host |-> host[1]]) ELSE ws0
        x1 == IF path # <<>> THEN MapInsert(EmptyMap, "path", PercentDecode(path[1]))
              ELSE EmptyMap
        x2 == IF host # <<>> THEN MapInsert(x1, "host", host[1]) ELSE x1
        x3 == IF mode # <<>> /\ mode[1] # "auto" THEN MapInsert(x2, "mode", mode[1]) ELSE x2
        extra == CreateXhttpExtra(query_params)
        x4 == IF DOMAIN extra # {} THEN MapInsert(x3, "extra", extra) ELSE x3
    IN  CASE network = "ws" ->
                 IF path # <<>> THEN MapInsert(stream_settings, "wsSettings", ws)
                 ELSE stream_settings
          [] network = "grpc" ->
                 IF service_name # <<>>
                 THEN MapInsert(stream_settings, "grpcSettings",
                                [serviceName |-> service_name[1]])
                 ELSE stream_settings
          [] network = "xhttp" ->
                 IF DOMAIN x4 # {} THEN MapInsert(stream_settings, "xhttpSettings", x4)
                 ELSE stream_settings
          [] OTHER -> stream_settings

\* create_stream_settings, as an Option
CreateStreamSettings(query_params) ==
    LET sec == LiteMapGet(query_params, "security")
        typ == LiteMapGet(query_params, "type")
        security == IF sec # <<>> THEN sec[1] ELSE "none"
        network == IF typ # <<>> THEN typ[1] ELSE "tcp"
        base == [network |-> network, security |-> security]
        reality == CreateRealitySettings(query_params)
        tls == CreateTlsSettings(query_params)
    IN  IF security = "none" \/ network \in {"http", "h2"} THEN <<>>
        ELSE IF security = "reality" /\ reality = <<>> THEN <<>>
        ELSE IF security = "tls" /\ tls = <<>> THEN <<>>
        ELSE <<ApplyNetworkSettings(
                   CASE security = "reality" ->
                            MapInsert(base, "realitySettings", reality[1])
                     [] security = "tls" -> MapInsert(base, "tlsSettings", tls[1])
                     [] OTHER -> base,
                   query_params, network)>>

\* outbound["streamSettings"] = stream_settings, when there is one
WithStreamSettings(outbound, query_params) ==
    LET stream_settings == CreateStreamSettings(query_params)
    IN  IF stream_settings # <<>>
        THEN MapInsert(outbound, "streamSettings", stream_settings[1])
        ELSE outbound

\* create_trojan_outbound
CreateTrojanOutbound(proxy, index) ==
    WithStreamSettings(
        [protocol |-> "trojan",
         settings |-> MapInsert(CreateCommonServerSettings(proxy, <<>>),
                                "password", proxy.username),
         tag |-> OutboundTag("trojan", index)],
        proxy.query_params)

\* create_vless_outbound
CreateVlessOutbound(proxy, index) ==
    LET s0 == CreateCommonServerSettings(proxy, <<>>)
        s1 == MapInsert(s0, "id", proxy.username)
        s2 == MapInsert(s1, "encryption", "none")
        flow == LiteMapGet(proxy.query_params, "flow")
        s3 == IF flow # <<>> THEN MapInsert(s2, "flow", flow[1]) ELSE s2
    IN  WithStreamSettings([protocol |-> "vless", settings |-> s3,
                            tag |-> OutboundTag("vless", index)],
                           proxy.query_params)

\* create_vmess_outbound.  The level is parsed with l.parse().ok() and
\* unwrap_or(0): nothing names the integer type, so it is i32.
CreateVmessOutbound(proxy, index) ==
    LET security == LiteMapGet(proxy.query_params, "security")
        level == LiteMapGet(proxy.query_params, "level")
        user == [id |-> proxy.username,
                 security |-> IF security # <<>> THEN security[1] ELSE "auto",
                 level |-> IF level # <<>> /\ ParseI32(level[1]) # <<>>
                           THEN ParseI32(level[1])[1] ELSE 0]
    IN  WithStreamSettings(
            [protocol |-> "vmess",
             settings |-> [vnext |-> << [address |-> IpToString(proxy.address),
                                         port |-> proxy.port,
                                         users |-> <<user>>] >>],
             tag |-> OutboundTag("vmess", index)],
            proxy.query_params)

\* The protocol tags create_outbound has an arm for
SupportedProtocols ==
    {"http", "https", "socks", "socks5", "ss", "shadowsocks", "trojan", "vless",
     "vmess"}

\* The Result<Option<Value>> of create_outbound
OkSome(v) == [ok |-> TRUE, value |-> <<v>>]
OkNone == [ok |-> TRUE, value |-> <<>>]
Err(e) == [ok |-> FALSE, err |-> e]

\* A create_outbound that skips a candidate of an unsupported protocol
CreateOutboundSkipping(proxy, index) ==
    CASE proxy.protocol \in {"http", "https"} -> OkSome(CreateHttpOutbound(proxy, index))
      [] proxy.protocol \in {"socks", "socks5"} -> OkSome(CreateSocksOutbound(proxy, index))
      [] proxy.protocol \in {"ss", "shadowsocks"} ->
             OkSome(CreateShadowsocksOutbound(proxy, index))
      [] proxy.protocol = "trojan" -> OkSome(CreateTrojanOutbound(proxy, index))
      [] proxy.protocol = "vless" -> OkSome(CreateVlessOutbound(proxy, index))
      [] proxy.protocol = "vmess" -> OkSome(CreateVmessOutbound(proxy, index))
      [] OTHER -> OkNone

\* create_outbound
CreateOutbound(proxy, index) ==
    CASE proxy.protocol \in {"http", "https"} -> OkSome(CreateHttpOutbound(proxy, index))
      [] proxy.protocol \in {"socks", "socks5"} -> OkSome(CreateSocksOutbound(proxy, index))
      [] proxy.protocol \in {"ss", "shadowsocks"} ->
             OkSome(CreateShadowsocksOutbound(proxy, index))
      [] proxy.protocol = "trojan" -> OkSome(CreateTrojanOutbound(proxy, index))
      [] proxy.protocol = "vless" -> OkSome(CreateVlessOutbound(proxy, index))
      [] proxy.protocol = "vmess" -> OkSome(CreateVmessOutbound(proxy, index))
      [] OTHER -> Err(<<"Unsupported protocol: ", proxy.protocol>>)

\* The listener generate_xray_config pushes for position i
Inbound(base_port, i) ==
    [listen |-> "127.0.0.1", port |-> base_port + i, protocol |-> "socks",
     settings |-> [auth |-> "noauth", udp |-> TRUE], tag |-> InboundTag(i)]

\* The routing rule generate_xray_config pushes for position i
Rule(proxy, i) ==
    [type |-> "field", inboundTag |-> <<InboundTag(i)>>,
     outboundTag |-> OutboundTag(proxy.protocol, i)]

\* The loop of generate_xray_config from position i on; the ? on
\* create_outbound returns its error at once
RECURSIVE GenerateLoop(_, _, _, _, _, _)
GenerateLoop(proxies, base_port, i, inbounds, outbounds, rules) ==
    IF i >= Len(proxies)
    THEN [ok |-> TRUE,
          config |-> [log |-> [loglevel |-> "error"],
                      inbounds |-> inbounds,
                      outbounds |-> Append(outbounds,
                                           [protocol |-> "freedom", tag |-> "direct"]),
                      routing |-> [domainStrategy |-> "IPIfNonMatch",
                                   rules |-> rules]]]
    ELSE LET proxy == proxies[i + 1]
             inbounds1 == Append(inbounds, Inbound(base_port, i))
             outbound == CreateOutbound(proxy, i)
         IN  IF ~outbound.ok THEN outbound
             ELSE IF outbound.value = <<>>
             THEN GenerateLoop(proxies, base_port, i + 1, inbounds1, outbounds, rules)
             ELSE GenerateLoop(proxies, base_port, i + 1, inbounds1,
                               Append(outbounds, outbound.value[1]),
                               Append(rules, Rule(proxy, i)))

\* generate_xray_config
GenerateXrayConfig(proxies, base_port) ==
    GenerateLoop(proxies, base_port, 0, <<>>, <<>>, <<>>)

\* The entity of a verified-candidate chunk with the given protocol tag and
\* parameters
MkProxy(address, protocol, query_params, ping) ==
    [address |-> address, port |-> 443, protocol |-> protocol,
     query_params |-> query_params, username |-> "u", ping |-> ping]

\* The base port of the first chunk: the default of --base-start-port
BaseStartPort == 10808

XrayProtocols == SupportedProtocols \cup {"wireguard"}

XrayProxies ==
    {MkProxy("A1", pr, EmptyMap, 0) : pr \in XrayProtocols}
    \cup {MkProxy("A2", pr, [level |-> "8", user |-> "bob", method |-> "rc4"], 0) :
             pr \in {"https", "shadowsocks"}}
    \cup {MkProxy("A2", pr, [level |-> lv], 0) :
             pr \in {"https", "vmess"}, lv \in {"-1", "+8"}}

XrayInit ==
    /\ cacheIdle
    /\ resolveIdle
    /\ chunkIdle
    /\ extraIdle
    /\ xin \in UNION {[1..n -> XrayProxies] : n \in 0..MaxChunkLen}
    /\ xbase \in {BaseStartPort, BaseStartPort + MaxChunkLen}
    /\ xout = <<>>
    /\ xpc = "call"

\* One call of generate_xray_config
XrayGenerate ==
    /\ xpc = "call"
    /\ xout' = GenerateXrayConfig(xin, xbase)
    /\ xpc' = "done"
    /\ UNCHANGED <<xin, xbase, cacheVars, resolveVars, chunkVars, extraVars>>

XrayNext == XrayGenerate

SpecXray == XrayInit /\ [][XrayNext]_vars

\* The query parameters of a candidate that names a transport: security and
\* network type ("" stands for an absent parameter), which of sni, pbk and
\* sid are present, and the optional parameters or none of them
StreamParams(security, present, network, more) ==
    LiteMapCollect(
        (IF security = "" THEN <<>> ELSE << <<"security", security>> >>)
        \o (IF network = "" THEN <<>> ELSE << <<"type", network>> >>)
        \o (IF "sni" \in present THEN << <<"sni", "a=x">> >> ELSE <<>>)
        \o (IF "pbk" \in present THEN << <<"pbk", "b">> >> ELSE <<>>)
        \o (IF "sid" \in present THEN << <<"sid", <<"a", "b", "c">> >> >> ELSE <<>>)
        \o (IF more
            THEN << <<"fp", "chrome">>, <<"spx", "/">>, <<"xver", "8">>,
                    <<"alpn", "h2,http/1.1">>, <<"path", "%2Fws">>, <<"host", "h">>,
                    <<"serviceName", "svc">>, <<"mode", "packet-up">>,
                    <<"headers", "{}">>, <<"xPaddingBytes", "8">>,
                    <<"noGRPCHeader", "true">>, <<"scStreamUpServerSecs", "20">>,
                    <<"flow", "vision">> >>
            ELSE <<>>),
        EmptyMap)

StreamProxies ==
    {MkProxy("A1", pr, StreamParams(sec, pres, net, more), 0) :
        pr \in {"trojan", "vless", "vmess"},
        sec \in {"", "none", "reality", "tls", "xtls"},
        pres \in SUBSET {"sni", "pbk", "sid"},
        net \in {"", "tcp", "ws", "grpc", "xhttp", "h2"},
        more \in BOOLEAN}

\* generate_xray_config on a chunk of one candidate that names a transport
StreamInit ==
    /\ cacheIdle
    /\ resolveIdle
    /\ chunkIdle
    /\ extraIdle
    /\ xin \in [1..1 -> StreamProxies]
    /\ xbase = BaseStartPort
    /\ xout = <<>>
    /\ xpc = "call"

SpecStream == StreamInit /\ [][XrayNext]_vars

(***************************************************************************)
(* Claims about the translator                                             *)
(***************************************************************************)
\* C5: fail-fast.  A chunk with a candidate of an unsupported protocol tag at
\* any position compiles to an error for the whole chunk, never to a document.
C5_FailFast ==
    (xpc = "done" /\ \E k \in DOMAIN xin : xin[k].protocol \notin SupportedProtocols)
        => ~xout.ok

\* C5 witness: a chunk of three whose second candidate alone is unsupported
\* was compiled
C5_Witness ==
    /\ xpc = "done"
    /\ Len(xin) = 3
    /\ xin[1].protocol \in SupportedProtocols
    /\ xin[2].protocol \notin SupportedProtocols
    /\ xin[3].protocol \in SupportedProtocols
    /\ ~xout.ok

\* C9: routing.  In a compiled document the rule emitted for position i binds
\* listener tag i to the tag of the forwarding target emitted for i, for each
\* of http, https, socks, socks5, shadowsocks, trojan, vless and vmess.
C9_RuleBindsOutbound ==
    (xpc = "done" /\ xout.ok) =>
        \A k \in DOMAIN xout.config.routing.rules :
            LET rule == xout.config.routing.rules[k]
            IN  /\ rule.inboundTag = <<xout.config.inbounds[k].tag>>
                /\ rule.outboundTag = xout.config.outbounds[k].tag

\* The parameters ask for reality without all of sni, pbk, sid, or for tls
\* without sni
Incomplete(query_params) ==
    \/ /\ LiteMapGet(query_params, "security") = <<"reality">>
       /\ \E param \in {"sni", "pbk", "sid"} : param \notin DOMAIN query_params
    \/ /\ LiteMapGet(query_params, "security") = <<"tls">>
       /\ "sni" \notin DOMAIN query_params

\* C14: reality / tls fallback.  The forwarding target of a trojan, vless or
\* vmess candidate whose parameters ask for reality without all of sni, pbk
\* and sid, or for tls without sni, has no transport block; and a transport
\* block that is emitted for reality or tls carries the complete settings.
C14_NoPartialBlock ==
    (xpc = "done" /\ xout.ok) =>
        \A k \in DOMAIN xin :
            xin[k].protocol \in {"trojan", "vless", "vmess"} =>
                LET outbound == xout.config.outbounds[k]
                    query_params == xin[k].query_params
                IN  /\ Incomplete(query_params)
                           => "streamSettings" \notin DOMAIN outbound
                    /\ "streamSettings" \in DOMAIN outbound =>
                           LET ss == outbound.streamSettings
                           IN  /\ ss.security = "reality" =>
                                      /\ "realitySettings" \in DOMAIN ss
                                      /\ {"serverName", "publicKey", "shortId"}
                                             \subseteq DOMAIN ss.realitySettings
                               /\ ss.security = "tls" =>
                                      /\ "tlsSettings" \in DOMAIN ss
                                      /\ "serverName" \in DOMAIN ss.tlsSettings

\* C14 witness: a trojan candidate with security=reality, sni and sid but no
\* pbk, over ws with a path, compiled to a target without a transport block
C14_Witness ==
    /\ xpc = "done"
    /\ xout.ok
    /\ xin[1].protocol = "trojan"
    /\ LiteMapGet(xin[1].query_params, "security") = <<"reality">>
    /\ LiteMapGet(xin[1].query_params, "type") = <<"ws">>
    /\ DOMAIN xin[1].query_params \cap {"sni", "pbk", "sid", "path"}
           = {"sni", "sid", "path"}
    /\ "streamSettings" \notin DOMAIN xout.config.outbounds[1]
    /\ xout.config.outbounds[1].tag = OutboundTag("trojan", 0)

(***************************************************************************)
(* Chunk verification (main.rs test_proxies_in_chunks,                     *)
(* start_xray_with_config, test_proxy_chunk)                               *)
(*                                                                         *)
(* Chunks and positions are numbered from 0 as in the code.  The engine is *)
(* a process of its own: while live it may exit at any moment.  A request  *)
(* through a listener succeeds only while the engine of the chunk is live. *)
(* kill() ends a live engine; its error is discarded by the code.          *)
(***************************************************************************)
Min(a, b) == IF a <= b THEN a ELSE b

\* pinged_proxies.chunks(chunk_size): how many chunks, and chunk c
NumChunks == (Len(pinged) + chunk_size - 1) \div chunk_size
ChunkAt(c) ==
    SubSeq(pinged, c * chunk_size + 1, Min((c + 1) * chunk_size, Len(pinged)))

\* A base port that advances by one per chunk
BasePortPerChunk(base_start_port, index, size) == base_start_port + index

\* main.rs 303: base_port of the chunk
BasePort(base_start_port, index, size) == base_start_port + index * size

\* A kill that leaves the process running
KillEngineNoop(state) == state

\* Child::kill on the engine process
KillEngine(state) == IF state = "live" THEN "killed" ELSE state

\* Vec::sort_by(|a, b| a.ping.cmp(&b.ping)): a stable sort
\* An insertion that puts a candidate before those of equal latency
RECURSIVE InsertByPingBeforeTies(_, _)
InsertByPingBeforeTies(sorted, x) ==
    IF sorted = <<>> THEN <<x>>
    ELSE IF Head(sorted).ping < x.ping
    THEN <<Head(sorted)>> \o InsertByPingBeforeTies(Tail(sorted), x)
    ELSE <<x>> \o sorted

RECURSIVE InsertByPing(_, _)
InsertByPing(sorted, x) ==
    IF sorted = <<>> THEN <<x>>
    ELSE IF Head(sorted).ping <= x.ping
    THEN <<Head(sorted)>> \o InsertByPing(Tail(sorted), x)
    ELSE <<x>> \o sorted

RECURSIVE SortByPing(_, _)
SortByPing(v, sorted) ==
    IF v = <<>> THEN sorted
    ELSE SortByPing(Tail(v), InsertByPing(sorted, Head(v)))

\* Duration::as_millis on a Duration held in nanoseconds
AsMillis(d) == d \div 1000000

\* The keys of the model's parameters in the order a LiteMap keeps them
\* (sorted by key)
KeyOrder ==
    <<"UoTVersion", "alpn", "email", "extra", "flow",
      "fp", "headers", "host", "level", "method",
      "mode", "noGRPCHeader", "noSSEHeader", "pass", "path",
      "pbk", "privateKey", "scMaxBufferedPosts", "scMaxEachPostBytes", "scMinPostsIntervalMs",
      "scStreamUpServerSecs", "security", "serviceName", "sid", "sni",
      "spx", "type", "uot", "user", "xPaddingBytes",
      "xver">>

\* The "k=v" texts of the parameters from position i of KeyOrder on, joined
\* by "&"
RECURSIVE QueryText(_, _, _)
QueryText(query_params, i, first) ==
    IF i > Len(KeyOrder) THEN <<>>
    ELSE IF KeyOrder[i] \in DOMAIN query_params
    THEN (IF first THEN <<>> ELSE <<"&">>)
         \o <<KeyOrder[i], "=", query_params[KeyOrder[i]]>>
         \o QueryText(query_params, i + 1, FALSE)
    ELSE QueryText(query_params, i + 1, first)

\* impl Display for ProxyConfig
Display(proxy) ==
    <<proxy.protocol, "://", proxy.username, "@", IpToString(proxy.address), ":",
      proxy.port>>
    \o (IF DOMAIN proxy.query_params = {} THEN <<>>
        ELSE <<"?">> \o QueryText(proxy.query_params, 1, TRUE))

\* save_results: the line of the candidate at position id (from 0)
ResultLine(proxy, id) ==
    <<Display(proxy), "#Novaprox - ", id + 1, " [", AsMillis(proxy.ping), "ms]">>

\* save_results: the lines written, for the working candidates given
ResultLines(working_proxies) ==
    LET sorted_proxies == SortByPing(working_proxies, <<>>)
    IN  [k \in DOMAIN sorted_proxies |-> ResultLine(sorted_proxies[k], k - 1)]

\* str::len of the texts of the model that reach the result file
TextLen(s) ==
    CASE s \in {"u", "a", "b", "z"} -> 1
      [] s = "/x" -> 2
      [] s \in {"sni", "pbk", "sid"} -> 3
      [] s = "path" -> 4
      [] s \in {"vless", "socks"} -> 5
      [] s = "reality" -> 7
      [] s \in {"security", "10.0.0.1", "10.0.0.2"} -> 8
      [] s = "wireguard" -> 9

\* The number of bytes of "{n}"
RECURSIVE Digits(_)
Digits(n) == IF n < 10 THEN 1 ELSE 1 + Digits(n \div 10)

\* The number of bytes of the "k=v" texts of the parameters from position i
\* of KeyOrder on, with the "&" between them (a sid is held as its characters)
RECURSIVE QueryBytes(_, _, _)
QueryBytes(query_params, i, first) ==
    IF i > Len(KeyOrder) THEN 0
    ELSE IF KeyOrder[i] \in DOMAIN query_params
    THEN (IF first THEN 0 ELSE 1)
         + TextLen(KeyOrder[i]) + 1
         + (IF KeyOrder[i] = "sid" THEN Len(query_params["sid"])
            ELSE TextLen(query_params[KeyOrder[i]]))
         + QueryBytes(query_params, i + 1, FALSE)
    ELSE QueryBytes(query_params, i + 1, first)

\* The number of bytes of the line of save_results for the candidate at
\* position id: "{proxy}#Novaprox - {} [{}ms]"
ResultLineBytes(proxy, id) ==
    TextLen(proxy.protocol) + 3 + TextLen(proxy.username) + 1
    + TextLen(IpToString(proxy.address)) + 1 + Digits(proxy.port)
    + (IF DOMAIN proxy.query_params = {} THEN 0
       ELSE 1 + QueryBytes(proxy.query_params, 1, TRUE))
    + 12 + Digits(id + 1) + 2 + Digits(AsMillis(proxy.ping)) + 3

\* The number of bytes of the text save_results writes: the lines joined by
\* "\n"
RECURSIVE ResultBytes(_, _)
ResultBytes(sorted_proxies, k) ==
    IF k >= Len(sorted_proxies) THEN 0
    ELSE ResultLineBytes(sorted_proxies[k + 1], k)
         + (IF k + 1 < Len(sorted_proxies) THEN 1 ELSE 0)
         + ResultBytes(sorted_proxies, k + 1)

\* The first b bytes of the lines from position k on (from 0), as the lines
\* they make: whole lines, then the first bytes of a line that was cut
RECURSIVE CutLines(_, _, _)
CutLines(sorted_proxies, k, b) ==
    IF b = 0 \/ k >= Len(sorted_proxies) THEN <<>>
    ELSE LET size == ResultLineBytes(sorted_proxies[k + 1], k)
             whole == ResultLine(sorted_proxies[k + 1], k)
         IN  IF b < size THEN <<[cut |-> whole, bytes |-> b]>>
             ELSE IF b = size THEN <<whole>>
             ELSE <<whole>> \o CutLines(sorted_proxies, k + 1, b - size - 1)

\* fs::write(results_file, results) that fails in write_all after b bytes,
\* fewer than all: File::create has truncated the file, and it holds the
\* first b bytes of the text
PartialResults(working_proxies, b) ==
    CutLines(SortByPing(working_proxies, <<>>), 0, b)

\* The result file a run may find: none, or the lines an earlier run wrote
ResultFiles ==
    { <<>>,
      << << ResultLine(MkProxy("A2", "vless", EmptyMap, 30000000), 0) >> >> }

\* The entities of a run: one protocol tag (the parser keeps one scheme)
ChunkProxies(protocol) ==
    { MkProxy("A1", protocol, EmptyMap, 10000000),
      MkProxy("A2", protocol, EmptyMap, 10000000),
      MkProxy("A1", protocol, [sni |-> "a", pbk |-> "b"], 20500000) }

\* Request tasks buffer_unordered has pulled and not yet completed
VInFlight == {i \in DOMAIN vpc : vpc[i] \notin {"queued", "done"}}

chunkInput == <<pinged, chunk_size, max_concurrent_checks>>

ChunkInit ==
    /\ cacheIdle
    /\ resolveIdle
    /\ xrayIdle
    /\ sidIdle
    /\ pingIdle
    /\ parseIdle
    /\ out_file \in ResultFiles
    /\ opc = "idle"
    /\ \E protocol \in {"vless", "wireguard"} :
         pinged \in UNION {[1..n -> ChunkProxies(protocol)] : n \in 0..MaxProxies}
    /\ chunk_size \in {1, 2}
    /\ max_concurrent_checks \in {1, 2}
    /\ chunk_index = 0
    /\ kpc = "generate"
    /\ config = <<>>
    /\ engine = [c \in 0..(NumChunks - 1) |-> "none"]
    /\ stdin = "none"
    /\ vpc = <<>>
    /\ vpermits = 0
    /\ working_chunk = <<>>
    /\ all_working = <<>>
    /\ result = <<>>
    /\ failure = <<>>
    /\ configs = [c \in 0..(NumChunks - 1) |-> <<>>]
    /\ sent = {}
    /\ exitedEarly = {}
    /\ captured = {}
    /\ killIssued = {}
    /\ events = <<>>

\* One entry of the record of what was done: to the engine of a chunk, or for
\* the candidate at a position of it
Event(ev, chunk, pos, ok) == [ev |-> ev, chunk |-> chunk, pos |-> pos, ok |-> ok]

\* The return of an error from test_proxies_in_chunks (a ?): nothing else is
\* done, the Child is dropped without a kill
Fail(cause) ==
    /\ kpc' = "failed"
    /\ failure' = <<cause, chunk_index>>

\* main.rs 304: generate_xray_config(chunk, base_port)?
ChunkGenerate ==
    /\ kpc = "generate"
    /\ chunk_index < NumChunks
    /\ LET r == GenerateXrayConfig(ChunkAt(chunk_index),
                                   BasePort(BaseStartPort, chunk_index, chunk_size))
       IN  IF r.ok
           THEN /\ config' = <<r.config>>
                /\ configs' = [configs EXCEPT ![chunk_index] = <<r.config>>]
                /\ kpc' = "spawn"
                /\ UNCHANGED failure
           ELSE /\ Fail("translate")
                /\ UNCHANGED <<config, configs>>
    /\ UNCHANGED <<chunkInput, events, chunk_index, engine, stdin, vpc, vpermits,
                   working_chunk, all_working, result, sent, exitedEarly,
                   captured, killIssued>>
    /\ UNCHANGED <<cacheVars, resolveVars, xrayVars, extraVars>>

\* start_xray_with_config: Command::spawn succeeds
EngineSpawnOk ==
    /\ kpc = "spawn"
    /\ engine' = [engine EXCEPT ![chunk_index] = "live"]
    /\ stdin' = "open"
    /\ kpc' = "write"
    /\ UNCHANGED <<chunkInput, chunk_index, config, vpc, vpermits, working_chunk,
                   all_working, result, failure, configs, sent, exitedEarly,
                   captured, killIssued>>
    /\ events' = Append(events, Event("spawn", chunk_index, 0, TRUE))
    /\ UNCHANGED <<cacheVars, resolveVars, xrayVars, extraVars>>

\* start_xray_with_config: the debug build's fs::write or Command::spawn fails
EngineSpawnErr ==
    /\ kpc = "spawn"
    /\ Fail("spawn")
    /\ UNCHANGED <<chunkInput, events, chunk_index, config, engine, stdin, vpc, vpermits,
                   working_chunk, all_working, result, configs, sent,
                   exitedEarly, captured, killIssued>>
    /\ UNCHANGED <<cacheVars, resolveVars, xrayVars, extraVars>>

\* start_xray_with_config: write_all and flush succeed, stdin is dropped
StdinWriteOk ==
    /\ kpc = "write"
    /\ stdin' = "closed"
    /\ kpc' = "sleep"
    /\ UNCHANGED <<chunkInput, chunk_index, config, engine, vpc, vpermits,
                   working_chunk, all_working, result, failure, configs, sent,
                   exitedEarly, captured, killIssued>>
    /\ events' = events \o <<Event("write", chunk_index, 0, TRUE),
                              Event("close", chunk_index, 0, TRUE)>>
    /\ UNCHANGED <<cacheVars, resolveVars, xrayVars, extraVars>>

\* start_xray_with_config: write_all or flush fails; the error is returned
\* and the Child, not set to kill on drop, is dropped
StdinWriteErr ==
    /\ kpc = "write"
    /\ stdin' = "closed"
    /\ Fail("write")
    /\ UNCHANGED <<chunkInput, chunk_index, config, engine, vpc, vpermits,
                   working_chunk, all_working, result, configs, sent,
                   exitedEarly, captured, killIssued>>
    /\ events' = events \o <<Event("write", chunk_index, 0, FALSE),
                              Event("close", chunk_index, 0, TRUE)>>
    /\ UNCHANGED <<cacheVars, resolveVars, xrayVars, extraVars>>

\* main.rs 307: the warm-up sleep ends
Warmup ==
    /\ kpc = "sleep"
    /\ kpc' = "try_wait"
    /\ UNCHANGED <<chunkInput, chunk_index, config, engine, stdin, vpc, vpermits,
                   working_chunk, all_working, result, failure, configs, sent,
                   exitedEarly, captured, killIssued>>
    /\ events' = Append(events, Event("warm", chunk_index, 0, TRUE))
    /\ UNCHANGED <<cacheVars, resolveVars, xrayVars, extraVars>>

\* Entering test_proxy_chunk: a new semaphore, every task still in the stream
StartTests ==
    /\ kpc' = "test"
    /\ vpc' = [i \in 0..(Len(ChunkAt(chunk_index)) - 1) |-> "queued"]
    /\ vpermits' = max_concurrent_checks
    /\ working_chunk' = <<>>

\* main.rs 309: try_wait()? finds the engine running
TryWaitRunning ==
    /\ kpc = "try_wait"
    /\ engine[chunk_index] = "live"
    /\ StartTests
    /\ UNCHANGED <<chunkInput, events, chunk_index, config, engine, stdin, all_working,
                   result, failure, configs, sent, exitedEarly, captured,
                   killIssued>>
    /\ UNCHANGED <<cacheVars, resolveVars, xrayVars, extraVars>>

\* main.rs 309-310: try_wait()? finds the engine exited
TryWaitExited ==
    /\ kpc = "try_wait"
    /\ engine[chunk_index] = "exited"
    /\ exitedEarly' = exitedEarly \cup {chunk_index}
    /\ kpc' = "read_stdout"
    /\ UNCHANGED <<chunkInput, events, chunk_index, config, engine, stdin, vpc, vpermits,
                   working_chunk, all_working, result, failure, configs, sent,
                   captured, killIssued>>
    /\ UNCHANGED <<cacheVars, resolveVars, xrayVars, extraVars>>

\* main.rs 309: try_wait()? fails
TryWaitErr ==
    /\ kpc = "try_wait"
    /\ Fail("try_wait")
    /\ UNCHANGED <<chunkInput, events, chunk_index, config, engine, stdin, vpc, vpermits,
                   working_chunk, all_working, result, configs, sent,
                   exitedEarly, captured, killIssued>>
    /\ UNCHANGED <<cacheVars, resolveVars, xrayVars, extraVars>>

\* main.rs 311-315: the output of the exited engine is read and logged
ReadStdoutOk ==
    /\ kpc = "read_stdout"
    /\ captured' = captured \cup {chunk_index}
    /\ StartTests
    /\ UNCHANGED <<chunkInput, events, chunk_index, config, engine, stdin, all_working,
                   result, failure, configs, sent, exitedEarly, killIssued>>
    /\ UNCHANGED <<cacheVars, resolveVars, xrayVars, extraVars>>

\* main.rs 313: read_to_string(..).await? fails
ReadStdoutErr ==
    /\ kpc = "read_stdout"
    /\ Fail("read_stdout")
    /\ UNCHANGED <<chunkInput, events, chunk_index, config, engine, stdin, vpc, vpermits,
                   working_chunk, all_working, result, configs, sent,
                   exitedEarly, captured, killIssued>>
    /\ UNCHANGED <<cacheVars, resolveVars, xrayVars, extraVars>>

\* buffer_unordered(max_concurrent_checks) takes the next future of the stream
VPull(i) ==
    /\ kpc = "test"
    /\ vpc[i] = "queued"
    /\ \A j \in DOMAIN vpc : j < i => vpc[j] # "queued"
    /\ CanPull(VInFlight, max_concurrent_checks)
    /\ vpc' = [vpc EXCEPT ![i] = "acquire"]
    /\ UNCHANGED <<chunkInput, events, chunk_index, kpc, config, engine, stdin, vpermits,
                   working_chunk, all_working, result, failure, configs, sent,
                   exitedEarly, captured, killIssued>>
    /\ UNCHANGED <<cacheVars, resolveVars, xrayVars, extraVars>>

\* permit.acquire().await, the client is built and the request is sent
VAcquire(i) ==
    /\ kpc = "test"
    /\ vpc[i] = "acquire"
    /\ vpermits > 0
    /\ vpermits' = vpermits - 1
    /\ vpc' = [vpc EXCEPT ![i] = "request"]
    /\ UNCHANGED <<chunkInput, chunk_index, kpc, config, engine, stdin,
                   working_chunk, all_working, result, failure, configs, sent,
                   exitedEarly, captured, killIssued>>
    /\ events' = Append(events, Event("request", chunk_index, i, TRUE))
    /\ UNCHANGED <<cacheVars, resolveVars, xrayVars, extraVars>>

\* The request through socks5://127.0.0.1:{base_port + i} completes: with a
\* success status (only through a live engine) or not; the permit is dropped
\* and the stream collects the candidate of a success
VRequest(i) ==
    /\ kpc = "test"
    /\ vpc[i] = "request"
    /\ \E ok \in BOOLEAN :
         /\ ok => engine[chunk_index] = "live"
         /\ sent' = sent \cup
                {[chunk |-> chunk_index, pos |-> i,
                  port |-> BasePort(BaseStartPort, chunk_index, chunk_size) + i,
                  ok |-> ok]}
         /\ events' = Append(events, Event("response", chunk_index, i, ok))
         /\ working_chunk' = IF ok
                             THEN Append(working_chunk, ChunkAt(chunk_index)[i + 1])
                             ELSE working_chunk
    /\ vpc' = [vpc EXCEPT ![i] = "done"]
    /\ vpermits' = vpermits + 1
    /\ UNCHANGED <<chunkInput, chunk_index, kpc, config, engine, stdin,
                   all_working, result, failure, configs, exitedEarly, captured,
                   killIssued>>
    /\ UNCHANGED <<cacheVars, resolveVars, xrayVars, extraVars>>

\* main.rs 318-320: test_proxy_chunk returns, all_working.extend(..)
ChunkCollect ==
    /\ kpc = "test"
    /\ StreamDone(vpc, max_concurrent_checks)
    /\ all_working' = all_working \o working_chunk
    /\ kpc' = "kill"
    /\ UNCHANGED <<chunkInput, events, chunk_index, config, engine, stdin, vpc, vpermits,
                   working_chunk, result, failure, configs, sent, exitedEarly,
                   captured, killIssued>>
    /\ UNCHANGED <<cacheVars, resolveVars, xrayVars, extraVars>>

\* main.rs 322: xray_process.kill().await.ok(), then the next chunk
EngineKill ==
    /\ kpc = "kill"
    /\ engine' = [engine EXCEPT ![chunk_index] = KillEngine(engine[chunk_index])]
    /\ killIssued' = killIssued \cup {chunk_index}
    /\ chunk_index' = chunk_index + 1
    /\ config' = <<>>
    /\ stdin' = "none"
    /\ kpc' = "generate"
    /\ UNCHANGED <<chunkInput, vpc, vpermits, working_chunk, all_working, result,
                   failure, configs, sent, exitedEarly, captured>>
    /\ events' = Append(events, Event("kill", chunk_index, 0, TRUE))
    /\ UNCHANGED <<cacheVars, resolveVars, xrayVars, extraVars>>

\* main.rs 325-326: after the last chunk, sort and return
ChunkReturn ==
    /\ kpc = "generate"
    /\ chunk_index = NumChunks
    /\ all_working' = SortByPing(all_working, <<>>)
    /\ result' = <<SortByPing(all_working, <<>>)>>
    /\ kpc' = "done"
    /\ UNCHANGED <<chunkInput, events, chunk_index, config, engine, stdin, vpc, vpermits,
                   working_chunk, failure, configs, sent, exitedEarly, captured,
                   killIssued>>
    /\ UNCHANGED <<cacheVars, resolveVars, xrayVars, extraVars>>

\* The engine process of some chunk exits by itself
EngineExit(c) ==
    /\ kpc \notin {"idle", "done", "failed"}
    /\ engine[c] = "live"
    /\ engine' = [engine EXCEPT ![c] = "exited"]
    /\ UNCHANGED <<chunkInput, events, chunk_index, kpc, config, stdin, vpc, vpermits,
                   working_chunk, all_working, result, failure, configs, sent,
                   exitedEarly, captured, killIssued>>
    /\ UNCHANGED <<cacheVars, resolveVars, xrayVars, extraVars>>

\* main.rs 172: save_results writes the result file
SaveResultsOk ==
    /\ kpc = "done"
    /\ opc = "idle"
    /\ out_file' = <<ResultLines(result[1])>>
    /\ opc' = "written"
    /\ UNCHANGED <<cacheVars, resolveVars, xrayVars, chunkVars, sidVars, pingVars,
                   parseVars>>

\* main.rs 172: fs::write fails and the run ends with the error.  Either
\* File::create failed and the file is as it was, or a write failed and the
\* file holds a part of the new text.
SaveResultsErr ==
    /\ kpc = "done"
    /\ opc = "idle"
    /\ \/ out_file' = out_file
       \/ \E b \in 0..(ResultBytes(SortByPing(result[1], <<>>), 0) - 1) :
              out_file' = <<PartialResults(result[1], b)>>
    /\ opc' = "failed"
    /\ UNCHANGED <<cacheVars, resolveVars, xrayVars, chunkVars, sidVars,
                   pingVars, parseVars>>

ChunkNext ==
    \/ ChunkGenerate
    \/ EngineSpawnOk
    \/ EngineSpawnErr
    \/ StdinWriteOk
    \/ StdinWriteErr
    \/ Warmup
    \/ TryWaitRunning
    \/ TryWaitExited
    \/ TryWaitErr
    \/ ReadStdoutOk
    \/ ReadStdoutErr
    \/ \E i \in DOMAIN vpc : VPull(i)
    \/ \E i \in DOMAIN vpc : VAcquire(i)
    \/ \E i \in DOMAIN vpc : VRequest(i)
    \/ ChunkCollect
    \/ EngineKill
    \/ ChunkReturn
    \/ \E c \in DOMAIN engine : EngineExit(c)
    \/ SaveResultsOk
    \/ SaveResultsErr

SpecChunks == ChunkInit /\ [][ChunkNext]_vars

(***************************************************************************)
(* Claims about chunk verification                                         *)
(***************************************************************************)
\* The requests of chunk c that completed with a success status
VerifiedOf(c) == {r \in sent : r.chunk = c /\ r.ok}

\* The verified candidates of the run, in the order their requests completed
Arrived ==
    LET verified == SelectSeq(events, LAMBDA e : e.ev = "response" /\ e.ok)
    IN  [k \in DOMAIN verified |-> ChunkAt(verified[k].chunk)[verified[k].pos + 1]]

\* The rank of the j-th of them: one more than the number of those with a
\* smaller latency, or an equal latency and an earlier arrival
RankOf(a, j) ==
    1 + Cardinality({i \in DOMAIN a :
                        \/ a[i].ping < a[j].ping
                        \/ (a[i].ping = a[j].ping /\ i < j)})

\* C11: ranking.  The returned result holds exactly the verified candidates of
\* all chunks, ascending by latency, those of equal latency in their order of
\* arrival; the result file has one line per candidate in that order, with
\* the ranks 1, 2, ..., n.
C11_Ranking ==
    /\ result # <<>> =>
           /\ Len(result[1]) = Len(Arrived)
           /\ \A j \in DOMAIN Arrived : result[1][RankOf(Arrived, j)] = Arrived[j]
    /\ opc = "written" =>
           /\ out_file # <<>>
           /\ Len(out_file[1]) = Len(Arrived)
           /\ \A j \in DOMAIN Arrived :
                  out_file[1][RankOf(Arrived, j)]
                      = <<Display(Arrived[j]), "#Novaprox - ", RankOf(Arrived, j),
                          " [", Arrived[j].ping \div 1000000, "ms]">>

\* C11 witness: three candidates verified, the slowest first, then two of
\* equal latency; the file lists the two in their order of arrival, then the
\* slowest
C11_Witness ==
    /\ opc = "written"
    /\ Len(Arrived) = 3
    /\ Arrived[1].ping > Arrived[2].ping
    /\ Arrived[2].ping = Arrived[3].ping
    /\ Arrived[2] # Arrived[3]
    /\ out_file[1][1][1] = Display(Arrived[2])
    /\ out_file[1][2][1] = Display(Arrived[3])
    /\ out_file[1][3] = ResultLine(Arrived[1], 2)

\* C4: an unsupported protocol tag is a per-chunk failure.  The run never
\* ends with the translation error of a chunk that holds an unsupported
\* protocol tag: that chunk is given up and the later chunks are gone through.
C4_UnsupportedIsPerChunk ==
    \A c \in 0..(NumChunks - 1) :
        (\E k \in DOMAIN ChunkAt(c) : ChunkAt(c)[k].protocol \notin SupportedProtocols)
        => ~(kpc = "failed" /\ failure = <<"translate", c>>)

\* C6: engine lifecycle.  Whenever the orchestrator has left a chunk (it is at
\* a later chunk, or it has returned, with a result or with an error), the
\* engine spawned for that chunk is no longer running.
C6_EngineKilledOnEveryExit ==
    \A c \in DOMAIN engine :
        (c < chunk_index \/ kpc \in {"done", "failed"}) => engine[c] # "live"

\* C7: one chunk at a time.  At most one engine is live, and the engine of
\* chunk k+1 is spawned only after kill was called on the engine of chunk k,
\* which is then not running.
C7_OneEngineAtATime ==
    /\ Cardinality({c \in DOMAIN engine : engine[c] = "live"}) <= 1
    /\ \A c \in DOMAIN engine :
           (c + 1 \in DOMAIN engine /\ engine[c + 1] # "none")
           => (c \in killIssued /\ engine[c] # "live")

\* C7 witness: the engine of the second chunk is live, that of the first was
\* running until it was killed
C7_Witness ==
    /\ NumChunks >= 2
    /\ engine[0] = "killed"
    /\ engine[1] = "live"

\* C8: an engine found exited at the end of the warm-up is not fatal.  Its
\* output is captured, its chunk yields no verified candidate, and the run
\* does not end at that chunk.
C8_EarlyExitNotFatal ==
    \A c \in exitedEarly :
        /\ (c \in captured \/ (kpc = "read_stdout" /\ chunk_index = c))
        /\ VerifiedOf(c) = {}
        /\ ~(kpc = "failed" /\ failure[2] = c)

\* C10: local ports.  The listener of position i of chunk c has port
\* base_start_port + c * chunk_size + i, no two listeners of the run share a
\* port, and each request goes to the port of its candidate's listener.
C10_PortAssignment ==
    /\ \A c \in DOMAIN configs :
           configs[c] # <<>> =>
               \A k \in DOMAIN configs[c][1].inbounds :
                   configs[c][1].inbounds[k].port
                       = BaseStartPort + c * chunk_size + (k - 1)
    /\ \A c1, c2 \in DOMAIN configs :
           (configs[c1] # <<>> /\ configs[c2] # <<>>) =>
               \A k1 \in DOMAIN configs[c1][1].inbounds,
                  k2 \in DOMAIN configs[c2][1].inbounds :
                   configs[c1][1].inbounds[k1].port = configs[c2][1].inbounds[k2].port
                       => (c1 = c2 /\ k1 = k2)
    /\ \A r \in sent :
           /\ configs[r.chunk] # <<>>
           /\ r.pos + 1 \in DOMAIN configs[r.chunk][1].inbounds
           /\ r.port = configs[r.chunk][1].inbounds[r.pos + 1].port
           /\ configs[r.chunk][1].inbounds[r.pos + 1].tag = InboundTag(r.pos)

\* C10 witness: a full first chunk of two and a second chunk, with a request
\* sent for the last position of each
C10_Witness ==
    /\ chunk_size = 2
    /\ \E r1, r2 \in sent :
           /\ r1.chunk = 0 /\ r1.pos = 1
           /\ r2.chunk = 1 /\ r2.pos = 0
           /\ r2.port = r1.port + 1

\* The places in the log of the events of one kind of chunk c
EventsAt(ev, c) == {k \in DOMAIN events : events[k].ev = ev /\ events[k].chunk = c}

\* C20: per-chunk engine protocol ordering.  For every chunk: one spawn, then
\* one write of the document, then the close of the input; the warm-up ends
\* once, after the close that followed a whole write; every request comes
\* after the end of the warm-up, every response after its request; kill is
\* issued once, after the warm-up and after a request was issued and answered
\* for every position of the chunk.
C20_EngineOrdering ==
    \A c \in 0..(NumChunks - 1) :
        /\ \A ev \in {"spawn", "write", "close", "warm", "kill"} :
               Cardinality(EventsAt(ev, c)) <= 1
        /\ \A w \in EventsAt("write", c) : \E s \in EventsAt("spawn", c) : s < w
        /\ \A x \in EventsAt("close", c) : \E w \in EventsAt("write", c) : w < x
        /\ \A m \in EventsAt("warm", c) :
               \E w \in EventsAt("write", c), x \in EventsAt("close", c) :
                   events[w].ok /\ w < x /\ x < m
        /\ \A r \in EventsAt("request", c) :
               /\ \E m \in EventsAt("warm", c) : m < r
               /\ \A r2 \in EventsAt("request", c) :
                      events[r2].pos = events[r].pos => r2 = r
        /\ \A p \in EventsAt("response", c) :
               \E r \in EventsAt("request", c) :
                   events[r].pos = events[p].pos /\ r < p
        /\ \A k \in EventsAt("kill", c) :
               /\ \E m \in EventsAt("warm", c) : m < k
               /\ \A i \in 0..(Len(ChunkAt(c)) - 1) :
                      \E r \in EventsAt("request", c), p \in EventsAt("response", c) :
                          /\ events[r].pos = i
                          /\ events[p].pos = i
                          /\ r < p
                          /\ p < k
               /\ \A e \in DOMAIN events :
                      (events[e].chunk = c /\ e # k) => e < k

\* C20 witness: the engine of the first chunk was killed after two requests
\* that were in flight together had both completed, and the engine of the
\* second chunk has been spawned
C20_Witness ==
    /\ EventsAt("kill", 0) # {}
    /\ EventsAt("spawn", 1) # {}
    /\ \E r \in EventsAt("request", 0), p \in EventsAt("response", 0) :
           /\ events[r].pos = 1
           /\ events[p].pos = 0
           /\ r < p

(***************************************************************************)
(* Probe stage (main.rs ping_proxies and its two calls in main)            *)
(*                                                                         *)
(* A Duration is its number of nanoseconds.  The result of one echo probe  *)
(* is an Option: <<>> for an error, <<rtt>> for a reply after rtt.         *)
(***************************************************************************)
\* The default of --ping-timeout-ms
PingTimeoutMs == 300

\* A probe that counts whatever its round-trip time
ProbeCountsAlways(r) == r # <<>>

\* main.rs 268-269: the probe counts when it returned Ok and its round-trip
\* time in whole milliseconds is below the timeout
ProbeCounts(r) == r # <<>> /\ AsMillis(r[1]) < PingTimeoutMs

\* The ping_count argument of the call of each pass
PassCount(pass) == IF pass = 1 THEN 1 ELSE ping_count - 1

\* The tasks of a pass before any is polled
NewTasks(proxies) ==
    [i \in DOMAIN proxies |->
        [pc |-> "queued", n |-> 0, total_duration |-> 0, successful_count |-> 0,
         rtts |-> <<>>]]

TaskPcs(tasks) == [i \in DOMAIN tasks |-> tasks[i].pc]

\* The positions of the tasks of the pass that is running
PTasks == IF ppass \in {1, 2} THEN DOMAIN ptask[ppass] ELSE {}

\* Probe tasks buffer_unordered has pulled and not yet completed
PInFlight ==
    IF ppass \in {1, 2}
    THEN {i \in DOMAIN ptask[ppass] : ptask[ppass][i].pc = "running"}
    ELSE {}

\* main.rs 130-138: the first call of ping_proxies, on the resolved set in the
\* order the HashSet yields it
PingPassOne ==
    /\ spc = "done"
    /\ ppass = 0
    /\ ping_count > 0
    /\ \E o \in Orderings(resolved) :
         /\ pin' = [pin EXCEPT ![1] = o]
         /\ ptask' = [ptask EXCEPT ![1] = NewTasks(o)]
    /\ ppass' = 1
    /\ UNCHANGED <<ping_count, max_concurrent_pings, pout, rttChoices>>
    /\ UNCHANGED <<cacheVars, resolveVars, xrayVars, chunkVars, sidVars, outVars, parseVars>>

\* main.rs 157-158: with --ping-count 0 the resolved set is collected as it is
PingSkip ==
    /\ spc = "done"
    /\ ppass = 0
    /\ ping_count = 0
    /\ \E o \in Orderings(resolved) : pout' = [pout EXCEPT ![2] = o]
    /\ ppass' = 3
    /\ UNCHANGED <<ping_count, max_concurrent_pings, pin, ptask, rttChoices>>
    /\ UNCHANGED <<cacheVars, resolveVars, xrayVars, chunkVars, sidVars, outVars, parseVars>>

\* buffer_unordered(max_concurrent_pings) takes the next future of the stream
PingPull(i) ==
    /\ ppass \in {1, 2}
    /\ ptask[ppass][i].pc = "queued"
    /\ \A j \in DOMAIN ptask[ppass] : j < i => ptask[ppass][j].pc # "queued"
    /\ CanPull(PInFlight, max_concurrent_pings)
    /\ ptask' = [ptask EXCEPT ![ppass][i].pc = "running"]
    /\ UNCHANGED <<ping_count, max_concurrent_pings, ppass, pin, pout, rttChoices>>
    /\ UNCHANGED <<cacheVars, resolveVars, xrayVars, chunkVars, sidVars, outVars, parseVars>>

\* main.rs 267-278: one turn of the loop: a probe, counted or not, then the
\* delay when the call makes more than one
PingProbe(i) ==
    /\ ppass \in {1, 2}
    /\ ptask[ppass][i].pc = "running"
    /\ ptask[ppass][i].n < PassCount(ppass)
    /\ \E r \in rttChoices :
         LET t == ptask[ppass][i]
         IN  ptask' = [ptask EXCEPT ![ppass][i] =
                 [pc |-> "running",
                  n |-> t.n + 1,
                  total_duration |-> IF ProbeCounts(r) THEN t.total_duration + r[1]
                                     ELSE t.total_duration,
                  successful_count |-> IF ProbeCounts(r) THEN t.successful_count + 1
                                       ELSE t.successful_count,
                  rtts |-> Append(t.rtts, r)]]
    /\ UNCHANGED <<ping_count, max_concurrent_pings, ppass, pin, pout, rttChoices>>
    /\ UNCHANGED <<cacheVars, resolveVars, xrayVars, chunkVars, sidVars, outVars, parseVars>>

\* main.rs 280-285: after the loop the task yields the candidate with its
\* average, or None; filter_map and collect keep the candidate
PingFinish(i) ==
    /\ ppass \in {1, 2}
    /\ ptask[ppass][i].pc = "running"
    /\ ptask[ppass][i].n >= PassCount(ppass)
    /\ LET t == ptask[ppass][i]
       IN  pout' = IF t.successful_count > 0
                   THEN [pout EXCEPT ![ppass] =
                            Append(@, [pin[ppass][i] EXCEPT
                                          !.ping = t.total_duration \div t.successful_count])]
                   ELSE pout
    /\ ptask' = [ptask EXCEPT ![ppass][i].pc = "done"]
    /\ UNCHANGED <<ping_count, max_concurrent_pings, ppass, pin, rttChoices>>
    /\ UNCHANGED <<cacheVars, resolveVars, xrayVars, chunkVars, sidVars, outVars, parseVars>>

\* main.rs 138-152: the first call has returned, the second is made on what it
\* returned
PingPassTwo ==
    /\ ppass = 1
    /\ StreamDone(TaskPcs(ptask[1]), max_concurrent_pings)
    /\ pin' = [pin EXCEPT ![2] = pout[1]]
    /\ ptask' = [ptask EXCEPT ![2] = NewTasks(pout[1])]
    /\ ppass' = 2
    /\ UNCHANGED <<ping_count, max_concurrent_pings, pout, rttChoices>>
    /\ UNCHANGED <<cacheVars, resolveVars, xrayVars, chunkVars, sidVars, outVars, parseVars>>

\* main.rs 152-156: the second call has returned
PingEnd ==
    /\ ppass = 2
    /\ StreamDone(TaskPcs(ptask[2]), max_concurrent_pings)
    /\ ppass' = 3
    /\ UNCHANGED <<ping_count, max_concurrent_pings, pin, ptask, pout, rttChoices>>
    /\ UNCHANGED <<cacheVars, resolveVars, xrayVars, chunkVars, sidVars, outVars, parseVars>>

PingNext ==
    \/ PingPassOne
    \/ PingSkip
    \/ \E i \in PTasks : PingPull(i)
    \/ \E i \in PTasks : PingProbe(i)
    \/ \E i \in PTasks : PingFinish(i)
    \/ PingPassTwo
    \/ PingEnd

\* The probe stage by itself: the resolve stage has returned a set
ResolvedSets ==
    SUBSET { FromUrl(MkUrl("vless", "u", <<HostDomain("h1")>>, <<443>>, QReality), "A1"),
             FromUrl(MkUrl("vless", "u", <<HostDomain("h1")>>, <<443>>, QReality), "A2") }

\* What a probe may return: an error, replies below the timeout, and replies
\* that take the timeout or longer
AllRtts == {<<>>, <<100000001>>, <<299999999>>, <<300000000>>}

PingInit ==
    /\ cacheIdle
    /\ xrayIdle
    /\ chunkIdle
    /\ sidIdle
    /\ outIdle
    /\ parseIdle
    /\ urls = <<>>
    /\ max_concurrent_dns = 1
    /\ rpc = <<>>
    /\ rpermits = 0
    /\ rlookup = <<>>
    /\ raddr = <<>>
    /\ rent = <<>>
    /\ resolvedVec = <<>>
    /\ resolved \in ResolvedSets
    /\ spc = "done"
    /\ rlog = <<>>
    /\ ping_count \in 0..MaxPingCount
    /\ max_concurrent_pings \in {1, 2}
    /\ ppass = 0
    /\ pin = [pass \in {1, 2} |-> <<>>]
    /\ ptask = [pass \in {1, 2} |-> <<>>]
    /\ pout = [pass \in {1, 2} |-> <<>>]
    /\ rttChoices = AllRtts

SpecPing == PingInit /\ [][PingNext]_vars

(***************************************************************************)
(* Claims about the probe stage                                            *)
(***************************************************************************)
\* The candidate an entity stands for, whatever latency it carries
Zeroed(e) == [e EXCEPT !.ping = 0]

\* The probes of a task that returned a reply in fewer whole milliseconds
\* than the timeout
Counted(rtts) ==
    {k \in DOMAIN rtts : rtts[k] # <<>> /\ rtts[k][1] \div 1000000 < PingTimeoutMs}

RECURSIVE SumRtts(_, _)
SumRtts(rtts, S) ==
    IF S = {} THEN 0
    ELSE LET k == CHOOSE x \in S : TRUE
         IN  rtts[k][1] + SumRtts(rtts, S \ {k})

\* The tasks a pass ran for a candidate
TasksOf(pass, e) == {i \in DOMAIN pin[pass] : Zeroed(pin[pass][i]) = Zeroed(e)}

\* The places of a candidate in what the probe stage returned
PlacesOf(e) == {m \in DOMAIN pout[2] : Zeroed(pout[2][m]) = Zeroed(e)}

\* C18: tiered probing.  When the probe stage has run, a candidate is in its
\* result if and only if its one probe of pass one was counted and at least
\* one of its ping_count - 1 probes of pass two was counted; it is there once,
\* and its latency is the sum of the counted pass-two round-trip times
\* divided by their number.
C18_TieredProbing ==
    (ppass = 3 /\ ping_count > 0) =>
        \A e \in resolved :
            LET okOne == \E i \in TasksOf(1, e) :
                             /\ Len(ptask[1][i].rtts) = 1
                             /\ Counted(ptask[1][i].rtts) = {1}
                okTwo == \E j \in TasksOf(2, e) : Counted(ptask[2][j].rtts) # {}
            IN  /\ Cardinality(TasksOf(1, e)) = 1
                /\ Cardinality(TasksOf(2, e)) <= 1
                /\ Cardinality(PlacesOf(e)) <= 1
                /\ (PlacesOf(e) # {}) <=> (okOne /\ okTwo)
                /\ \A m \in PlacesOf(e) : \A j \in TasksOf(2, e) :
                       LET r == ptask[2][j].rtts
                       IN  /\ Len(r) = ping_count - 1
                           /\ pout[2][m].ping =
                                  SumRtts(r, Counted(r)) \div Cardinality(Counted(r))

\* C18 witness: a candidate whose pass-one probe took 100000001 ns left the
\* stage with latency 299999999 ns, the one counted probe of its two in pass
\* two (the other took the whole timeout), while another candidate whose
\* pass-two probes all failed was dropped
C18_Witness ==
    /\ ppass = 3
    /\ ping_count = 3
    /\ Len(pin[2]) = 2
    /\ Len(pout[2]) = 1
    /\ pout[2][1].ping = 299999999
    /\ \E i \in DOMAIN pin[1] :
           /\ Zeroed(pin[1][i]) = Zeroed(pout[2][1])
           /\ ptask[1][i].rtts = << <<100000001>> >>
    /\ \E j \in DOMAIN pin[2] :
           /\ Zeroed(pin[2][j]) = Zeroed(pout[2][1])
           /\ ptask[2][j].rtts = << <<300000000>>, <<299999999>> >>

\* C24: probe budget.  For every repeat count of at least one, a candidate
\* none of whose probes failed or took the timeout or longer is in the result
\* of the probe stage.
C24_AllSuccessSurvives ==
    (ppass = 3 /\ ping_count >= 1) =>
        \A e \in resolved :
            (\A pass \in {1, 2} : \A i \in TasksOf(pass, e) :
                 Counted(ptask[pass][i].rtts) = DOMAIN ptask[pass][i].rtts)
            => PlacesOf(e) # {}

(***************************************************************************)
(* Endpoint parser (parse_url.rs)                                          *)
(*                                                                         *)
(* A text is a sequence of tokens, each a piece the parser never splits:   *)
(* "://", "?", "&", "=", "#", the artifact "amp;", a scheme, an authority  *)
(* (user, host and port), a base64 payload, a name or a value.  A Url is   *)
(* what the code reads and writes of it: scheme, authority, query and      *)
(* fragment, the last two Options of texts.                                *)
(***************************************************************************)
\* str::replace("amp;", "")
ReplaceAmp(l) == SelectSeq(l, LAMBDA t : t # "amp;")

\* The position of the first token t in s, 0 when there is none
FirstIndex(s, t) ==
    IF \E k \in DOMAIN s : s[k] = t
    THEN CHOOSE k \in DOMAIN s : s[k] = t /\ \A j \in 1..(k - 1) : s[j] # t
    ELSE 0

\* str::split(t), as the sequence of its pieces
RECURSIVE SplitOn(_, _)
SplitOn(s, t) ==
    LET k == FirstIndex(s, t)
    IN  IF k = 0 THEN <<s>>
        ELSE <<SubSeq(s, 1, k - 1)>> \o SplitOn(SubSeq(s, k + 1, Len(s)), t)

\* [T]::join(t)
RECURSIVE JoinWith(_, _)
JoinWith(parts, t) ==
    IF parts = <<>> THEN <<>>
    ELSE IF Len(parts) = 1 THEN parts[1]
    ELSE parts[1] \o <<t>> \o JoinWith(Tail(parts), t)

\* str::starts_with
StartsWith(s, prefix) ==
    Len(s) >= Len(prefix) /\ SubSeq(s, 1, Len(prefix)) = prefix

\* The scheme tokens of the model and their ASCII lower case, which Url::parse
\* stores
SchemeTokens == {"vless", "VLESS", "trojan", "vmess", "VMESS"}

SchemeLower(t) ==
    CASE t = "VLESS" -> "vless"
      [] t = "VMESS" -> "vmess"
      [] OTHER -> t

\* The base64 payloads of the model
Payloads == {"B(full)", "B(noadd)", "B(portstr)", "B(bigport)", "B(noid)",
             "B(badadd)", "B(notjson)", "B(notutf8)"}

\* The tokens Url::parse takes as an authority: user, host and port, or a
\* payload, which is an opaque host to it
Authorities == {"u@h1:443"} \cup Payloads

\* Url::parse(..).ok() on the lines of the model: a scheme, "://", an
\* authority, then an optional "?" with the query up to "#", then an optional
\* "#" with the fragment
UrlParse(l) ==
    IF Len(l) < 3 THEN <<>>
    ELSE IF ~(l[1] \in SchemeTokens /\ l[2] = "://" /\ l[3] \in Authorities) THEN <<>>
    ELSE LET rest == SubSeq(l, 4, Len(l))
             h == FirstIndex(rest, "#")
             beforeFragment == IF h = 0 THEN rest ELSE SubSeq(rest, 1, h - 1)
             fragment == IF h = 0 THEN <<>> ELSE <<SubSeq(rest, h + 1, Len(rest))>>
         IN  IF beforeFragment # <<>> /\ beforeFragment[1] # "?" THEN <<>>
             ELSE << [scheme |-> SchemeLower(l[1]),
                      authority |-> l[3],
                      query |-> IF beforeFragment = <<>> THEN <<>>
                                ELSE <<Tail(beforeFragment)>>,
                      fragment |-> fragment] >>

\* form_urlencoded decoding of one token of the model
FormDecode(t) == IF t = "real%69ty" THEN "reality" ELSE t

DecodeText(s) == [i \in DOMAIN s |-> FormDecode(s[i])]

\* One name=value piece of a query: split at the first "=", both sides
\* decoded; without "=" the value is empty
QueryPair(piece) ==
    LET k == FirstIndex(piece, "=")
    IN  IF k = 0 THEN <<DecodeText(piece), <<>> >>
        ELSE <<DecodeText(SubSeq(piece, 1, k - 1)),
               DecodeText(SubSeq(piece, k + 1, Len(piece)))>>

\* Url::query_pairs: the pieces between "&", empty pieces skipped
QueryPairs(url) ==
    IF url.query = <<>> THEN <<>>
    ELSE LET pieces == SelectSeq(SplitOn(url.query[1], "&"), LAMBDA s : s # <<>>)
         IN  [i \in DOMAIN pieces |-> QueryPair(pieces[i])]

\* Url::set_query(Some(q))
SetQuery(url, q) == [url EXCEPT !.query = <<q>>]

\* A gate that looks at the keys only
PassesFiltersKeyOnly(url, scheme, filters) ==
    /\ url.scheme = scheme
    /\ \A f \in DOMAIN filters :
           \E q \in DOMAIN QueryPairs(url) : QueryPairs(url)[q][1] = filters[f][1]

\* parse_url.rs 19-24: the scheme is the target scheme and every filter has a
\* pair with its key and its value
PassesFilters(url, scheme, filters) ==
    /\ url.scheme = scheme
    /\ \A f \in DOMAIN filters :
           \E q \in DOMAIN QueryPairs(url) :
               /\ QueryPairs(url)[q][1] = filters[f][1]
               /\ QueryPairs(url)[q][2] = filters[f][2]

\* parse_url.rs 28: params_remove.contains(k)
Contains(keys, k) == \E i \in DOMAIN keys : keys[i] = k

\* parse_url.rs 29-37: the pair is dropped, or written as key=value with the
\* value cut at its first "="
NormalizePair(pair) ==
    LET k == pair[1]
        v == pair[2]
    IN  IF v = <<"none">> \/ (k = <<"type">> /\ v = <<"tcp">>) THEN <<>>
        ELSE << k \o <<"=">> \o SplitOn(v, "=")[1] >>

RECURSIVE FilterMapPairs(_, _)
FilterMapPairs(pairs, remove) ==
    IF pairs = <<>> THEN <<>>
    ELSE LET rest == FilterMapPairs(Tail(pairs), remove)
         IN  IF Contains(remove, Head(pairs)[1]) THEN rest
             ELSE NormalizePair(Head(pairs)) \o rest

\* parse_url.rs 25-42: the query is replaced by the kept pairs joined by "&"
NormalizeQuery(url, remove) ==
    SetQuery(url, JoinWith(FilterMapPairs(QueryPairs(url), remove), "&"))

\* base64 STANDARD decode of the rest of the line, as an Option: only a lone
\* payload decodes
Base64Decode(part) ==
    IF Len(part) = 1 /\ part[1] \in Payloads THEN <<part[1]>> ELSE <<>>

\* String::from_utf8, as an Option
FromUtf8(bytes) == IF bytes = "B(notutf8)" THEN <<>> ELSE <<bytes>>

JStr(s) == <<"str", s>>
JNum(n) == <<"num", n>>

\* serde_json::from_str::<Value> on the payloads of the model, as an Option
VmessConfigFromStr(str) ==
    CASE str = "B(full)" ->
             << [add |-> JStr("h1"), port |-> JNum(443), id |-> JStr("u")] >>
      [] str = "B(noadd)" -> << [port |-> JNum(443), id |-> JStr("u")] >>
      [] str = "B(portstr)" ->
             << [add |-> JStr("h1"), port |-> JStr("443"), id |-> JStr("u")] >>
      [] str = "B(bigport)" ->
             << [add |-> JStr("h1"), port |-> JNum(65979), id |-> JStr("u")] >>
      [] str = "B(noid)" -> << [add |-> JStr("h1"), port |-> JNum(443)] >>
      [] str = "B(badadd)" ->
             << [add |-> JStr("h 1"), port |-> JNum(443), id |-> JStr("u")] >>
      [] OTHER -> <<>>

\* config[key].as_str() and config[key].as_u64(), as Options
AsStr(value, key) ==
    IF key \in DOMAIN value /\ value[key][1] = "str" THEN <<value[key][2]>> ELSE <<>>

AsU64(value, key) ==
    IF key \in DOMAIN value /\ value[key][1] = "num" THEN <<value[key][2]>> ELSE <<>>

\* format!("{username}@{address}:{port}") on the values of the model
FormatAuthority(username, address, port) ==
    IF username = "u" /\ address = "h1" /\ port = 443 THEN "u@h1:443"
    ELSE "u@h 1:443"

\* parse_vmess_url(..).ok().flatten()
ParseVmessUrl(l) ==
    LET decoded == Base64Decode(SubSeq(l, 3, Len(l)))
    IN  IF decoded = <<>> THEN <<>>
        ELSE IF FromUtf8(decoded[1]) = <<>> THEN <<>>
        ELSE LET vmess_config == VmessConfigFromStr(FromUtf8(decoded[1])[1])
             IN  IF vmess_config = <<>> THEN <<>>
                 ELSE IF AsStr(vmess_config[1], "add") = <<>> THEN <<>>
                 ELSE IF AsU64(vmess_config[1], "port") = <<>> THEN <<>>
                 ELSE IF AsStr(vmess_config[1], "id") = <<>> THEN <<>>
                 ELSE UrlParse(<<"vmess", "://",
                                 FormatAuthority(AsStr(vmess_config[1], "id")[1],
                                                 AsStr(vmess_config[1], "add")[1],
                                                 AsU64(vmess_config[1], "port")[1] % 65536)>>)

\* parse_proxy_url
ParseProxyUrl(l, scheme, filters, remove) ==
    LET cleaned_line == ReplaceAmp(l)
    IN  IF scheme = "vmess" /\ StartsWith(cleaned_line, <<"vmess", "://">>)
        THEN ParseVmessUrl(cleaned_line)
        ELSE LET url == UrlParse(cleaned_line)
             IN  IF url = <<>> THEN <<>>
                 ELSE IF ~PassesFilters(url[1], scheme, filters) THEN <<>>
                 ELSE <<NormalizeQuery(url[1], remove)>>

\* The parameters the lines of the model are made of
ParamTexts ==
    { <<"security", "=", "reality">>,
      <<"security", "=", "real%69ty">>,
      <<"security", "=", "reality", "=", "trash">>,
      <<"security", "=", "tls">>,
      <<"Security", "=", "reality">>,
      <<"security">>,
      <<"encryption", "=", "none">>,
      <<"encryption", "=", "none", "=", "junk">>,
      <<"type", "=", "tcp">>,
      <<"sni", "=", "a">> }

\* What stands between two parameters: "&", or "&amp;" as copied from HTML
Separators == { <<"&">>, <<"&", "amp;">> }

RECURSIVE QueriesOf(_)
QueriesOf(n) ==
    IF n = 0 THEN { <<>> }
    ELSE IF n = 1 THEN ParamTexts
    ELSE {q \o s \o p : q \in QueriesOf(n - 1), s \in Separators, p \in ParamTexts}

GenericLines ==
    {<<s, "://", "u@h1:443">> \o q \o f :
        s \in {"vless", "VLESS", "trojan"},
        q \in { <<>> } \cup {<<"?">> \o t : t \in UNION {QueriesOf(n) : n \in 0..MaxParams}},
        f \in { <<>>, <<"#", "n">> }}

VmessLines ==
    {<<s, "://", b>> \o q :
        s \in {"vmess", "VMESS"},
        b \in Authorities,
        q \in { <<>>, <<"?", "security", "=", "reality">> }}

\* Lines that are no URI: empty, without a scheme, with a port that is none
BrokenLines == { <<>>, <<"u@h1:443">>, <<"vless", "://", "u@h1:x">> }

ParseLines == GenericLines \cup VmessLines \cup BrokenLines

\* --whitelist-params as parse_param_filters returns it
FilterChoices ==
    { <<>>,
      << << <<"security">>, <<"reality">> >> >>,
      << << <<"security">>, <<"reality">> >>, << <<"sni">>, <<"a">> >> >>,
      << << <<"encryption">>, <<"none">> >> >> }

\* --remove-params split at ","
RemoveChoices == { <<>>, << <<"security">>, <<"sni">> >> }

ParseInit ==
    /\ cacheIdle
    /\ resolveIdle
    /\ xrayIdle
    /\ chunkIdle
    /\ sidIdle
    /\ outIdle
    /\ pingIdle
    /\ raw_line \in ParseLines
    /\ target_scheme \in {"vless", "vmess", "VLESS"}
    /\ param_filters \in FilterChoices
    /\ params_remove \in RemoveChoices
    /\ parsed = <<>>
    /\ parsepc = "call"

\* One call of parse_proxy_url
ParseCall ==
    /\ parsepc = "call"
    /\ parsed' = ParseProxyUrl(raw_line, target_scheme, param_filters, params_remove)
    /\ parsepc' = "done"
    /\ UNCHANGED <<raw_line, target_scheme, param_filters, params_remove>>
    /\ UNCHANGED <<cacheVars, resolveVars, xrayVars, chunkVars, sidVars, outVars,
                   pingVars>>

ParseNext == ParseCall

SpecParse == ParseInit /\ [][ParseNext]_vars

(***************************************************************************)
(* Claims about the endpoint parser                                        *)
(***************************************************************************)
\* The call takes the generic path: not the payload path of parse_url.rs 14
GenericPath ==
    ~(target_scheme = "vmess" /\ StartsWith(ReplaceAmp(raw_line), <<"vmess", "://">>))

\* C17: whitelist gate on the generic path.  The parser returns a candidate
\* if and only if the cleaned line parses as a URI, the URI's scheme is the
\* target scheme, and every (key, value) of the filters is a pair of the URI's
\* query; the candidate is that URI up to its query.
C17_WhitelistGate ==
    (parsepc = "done" /\ GenericPath) =>
        LET u == UrlParse(ReplaceAmp(raw_line))
        IN  /\ (parsed # <<>>) <=>
                   /\ u # <<>>
                   /\ u[1].scheme = target_scheme
                   /\ \A f \in DOMAIN param_filters :
                          \E q \in DOMAIN QueryPairs(u[1]) :
                              QueryPairs(u[1])[q] = param_filters[f]
            /\ parsed # <<>> =>
                   /\ parsed[1].scheme = target_scheme
                   /\ parsed[1].authority = u[1].authority
                   /\ parsed[1].fragment = u[1].fragment

\* C17 witness: a line with two parameters joined by "&amp;" passed a gate of
\* two filters, the value of one given percent-encoded
C17_Witness ==
    /\ parsepc = "done"
    /\ GenericPath
    /\ parsed # <<>>
    /\ Len(param_filters) = 2
    /\ \E k \in DOMAIN raw_line : raw_line[k] = "amp;"
    /\ \E k \in DOMAIN raw_line : raw_line[k] = "real%69ty"

\* The keys of the query pairs of a Url, in their order
KeysOf(url) == [i \in DOMAIN QueryPairs(url) |-> QueryPairs(url)[i][1]]

\* The keys of a sequence without their later occurrences
RECURSIVE FirstOccurrences(_, _)
FirstOccurrences(keys, seen) ==
    IF keys = <<>> THEN <<>>
    ELSE IF Head(keys) \in seen THEN FirstOccurrences(Tail(keys), seen)
    ELSE <<Head(keys)>> \o FirstOccurrences(Tail(keys), seen \cup {Head(keys)})

\* C22: key handling on the generic path.  The query of a produced candidate
\* holds every key at most once, and its keys stand in the order of their
\* first occurrence in the query of the line.
C22_KeysDeduplicated ==
    (parsepc = "done" /\ GenericPath /\ parsed # <<>>) =>
        LET keys == KeysOf(parsed[1])
            given == FirstOccurrences(KeysOf(UrlParse(ReplaceAmp(raw_line))[1]), {})
        IN  /\ \A i, j \in DOMAIN keys : keys[i] = keys[j] => i = j
            /\ \E f \in [DOMAIN keys -> DOMAIN given] :
                   /\ \A i \in DOMAIN keys : given[f[i]] = keys[i]
                   /\ \A i, j \in DOMAIN keys : i < j => f[i] < f[j]

\* The text of a Url, as a line
UrlToLine(url) ==
    <<url.scheme, "://", url.authority>>
        \o (IF url.query = <<>> THEN <<>> ELSE <<"?">> \o url.query[1])
        \o (IF url.fragment = <<>> THEN <<>> ELSE <<"#">> \o url.fragment[1])

\* C25: parser output.  In a candidate produced on the generic path no
\* parameter has a key of params_remove, none has the value none, none is
\* type=tcp, no value holds an "="; and parsing the candidate again with the
\* same arguments returns it unchanged.
C25_OutputNormalized ==
    (parsepc = "done" /\ GenericPath /\ parsed # <<>>) =>
        /\ \A i \in DOMAIN QueryPairs(parsed[1]) :
               LET k == QueryPairs(parsed[1])[i][1]
                   v == QueryPairs(parsed[1])[i][2]
               IN  /\ \A r \in DOMAIN params_remove : params_remove[r] # k
                   /\ v # <<"none">>
                   /\ ~(k = <<"type">> /\ v = <<"tcp">>)
                   /\ \A j \in DOMAIN v : v[j] # "="
        /\ ParseProxyUrl(UrlToLine(parsed[1]), target_scheme, param_filters,
                         params_remove) = parsed

(***************************************************************************)
(* The run (main.rs main): load the cache, resolve, probe in two passes,   *)
(* verify in chunks, write the result file                                 *)
(***************************************************************************)
\* main.rs 124: load_cache()? fails on a file that is there and cannot be
\* read; main returns the error
CacheLoadErr ==
    /\ cstep = "new"
    /\ file # <<>>
    /\ cstep' = "load_failed"
    /\ UNCHANGED <<cache, file, loaded, ret, instance, nops, touched, resolveVars,
                   xrayVars, chunkVars, extraVars>>

\* main.rs 161-168 and 300: test_proxies_in_chunks is called on the candidates
\* the probe stage left
ChunkStart ==
    /\ ppass = 3
    /\ kpc = "idle"
    /\ pinged' = pout[2]
    /\ LET n == (Len(pout[2]) + chunk_size - 1) \div chunk_size
       IN  /\ engine' = [c \in 0..(n - 1) |-> "none"]
           /\ configs' = [c \in 0..(n - 1) |-> <<>>]
    /\ chunk_index' = 0
    /\ all_working' = <<>>
    /\ kpc' = "generate"
    /\ UNCHANGED <<chunk_size, max_concurrent_checks, config, stdin, vpc, vpermits,
                   working_chunk, result, failure, sent, exitedEarly, captured,
                   killIssued, events>>
    /\ UNCHANGED <<cacheVars, resolveVars, xrayVars, extraVars>>

\* The candidates of a run, as the parser passed them on
MainUrls ==
    { MkUrl("vless", "u", <<HostDomain("h1")>>, <<443>>, QReality),
      MkUrl("vless", "u", <<HostDomain("10.0.0.2")>>, <<443>>, QReality) }

\* --max-concurrent-dns, --max-concurrent-pings, --max-concurrent-checks
MainCaps == { <<1, 2, 1>>, <<2, 1, 2>> }

\* The state of a run before load_cache, its caps drawn from capSet
RunInit(capSet) ==
    /\ cache = DnsCacheNew
    /\ file = << << <<"h2", "10.0.0.1">> >> >>
    /\ loaded = EmptyMap
    /\ ret = <<>>
    /\ instance = 1
    /\ cstep = "new"
    /\ nops = 0
    /\ touched = EmptyMap
    /\ urls \in UNION {[1..n -> MainUrls] : n \in 0..MaxUrls}
    /\ \E caps \in capSet :
         /\ max_concurrent_dns = caps[1]
         /\ max_concurrent_pings = caps[2]
         /\ max_concurrent_checks = caps[3]
    /\ rpc = [i \in DOMAIN urls |-> "queued"]
    /\ rpermits = max_concurrent_dns
    /\ rlookup = [i \in DOMAIN urls |-> <<>>]
    /\ raddr = [i \in DOMAIN urls |-> <<>>]
    /\ rent = [i \in DOMAIN urls |-> <<>>]
    /\ resolvedVec = <<>>
    /\ resolved = {}
    /\ spc = "resolving"
    /\ rlog = <<>>
    /\ xrayIdle
    /\ sidIdle
    /\ outIdle
    /\ parseIdle
    /\ ping_count \in {0, 2}
    /\ ppass = 0
    /\ pin = [pass \in {1, 2} |-> <<>>]
    /\ ptask = [pass \in {1, 2} |-> <<>>]
    /\ pout = [pass \in {1, 2} |-> <<>>]
    /\ rttChoices = {<<>>, <<100000001>>}
    /\ pinged = <<>>
    /\ chunk_size \in {1, 2}
    /\ chunk_index = 0
    /\ kpc = "idle"
    /\ config = <<>>
    /\ engine = <<>>
    /\ stdin = "none"
    /\ vpc = <<>>
    /\ vpermits = 0
    /\ working_chunk = <<>>
    /\ all_working = <<>>
    /\ result = <<>>
    /\ failure = <<>>
    /\ configs = <<>>
    /\ sent = {}
    /\ exitedEarly = {}
    /\ captured = {}
    /\ killIssued = {}
    /\ events = <<>>

MainInit == RunInit(MainCaps)

MainNext ==
    \/ CacheLoad
    \/ CacheLoadErr
    \/ \E i \in DOMAIN urls : TaskPull(i)
    \/ \E i \in DOMAIN urls : TaskAcquire(i)
    \/ \E i \in DOMAIN urls : TaskGet(i)
    \/ \E i \in DOMAIN urls : TaskLookup(i)
    \/ \E i \in DOMAIN urls : TaskInsert(i)
    \/ ResolveSaveOk
    \/ ResolveSaveErr
    \/ PingNext
    \/ ChunkStart
    \/ ChunkNext

SpecMain == MainInit /\ [][MainNext]_vars

\* The run with any cap, zero included, and with every step that can be taken
\* eventually taken: every lookup, probe, request, spawn, kill and file access
\* completes
LiveCaps == MainCaps \cup { <<0, 1, 1>>, <<1, 0, 1>>, <<1, 1, 0>> }

LiveInit == RunInit(LiveCaps)

SpecLive == LiveInit /\ [][MainNext]_vars /\ WF_vars(MainNext)

\* The run is over: main has returned an error or written the result file
RunOver ==
    \/ cstep = "load_failed"
    \/ spc = "failed"
    \/ kpc = "failed"
    \/ opc \in {"written", "failed"}

\* The same run with the caps all positive
SpecLivePositive == MainInit /\ [][MainNext]_vars /\ WF_vars(MainNext)

(***************************************************************************)
(* Claims about the run                                                    *)
(***************************************************************************)
\* C15: bounded fan-out.  The resolution tasks in flight are at most
\* max_concurrent_dns, the probe tasks in flight at most max_concurrent_pings,
\* the verification requests in flight at most max_concurrent_checks; the
\* permits of the resolve pool and of the check pool are counted apart, each
\* against its own cap.
C15_BoundedFanOut ==
    /\ Cardinality({i \in DOMAIN rpc : rpc[i] \notin {"queued", "done"}})
           <= max_concurrent_dns
    /\ \A pass \in DOMAIN ptask :
           Cardinality({i \in DOMAIN ptask[pass] : ptask[pass][i].pc = "running"})
               <= max_concurrent_pings
    /\ Cardinality({i \in DOMAIN vpc : vpc[i] \notin {"queued", "done"}})
           <= max_concurrent_checks
    /\ rpermits + Cardinality({i \in DOMAIN rpc : rpc[i] \in {"get", "lookup", "insert"}})
           = max_concurrent_dns
    /\ kpc = "test" =>
           vpermits + Cardinality({i \in DOMAIN vpc : vpc[i] = "request"})
               = max_concurrent_checks

\* C15 witness: two probe tasks in flight under a probe cap of two, in a run
\* whose DNS cap and verification cap are one
C15_Witness ==
    /\ max_concurrent_dns = 1
    /\ max_concurrent_checks = 1
    /\ max_concurrent_pings = 2
    /\ ppass = 2
    /\ Cardinality(PInFlight) = 2

\* C16: stage boundaries are full barriers.  A probe pass has begun only when
\* every resolution task is done and the cache was saved; pass two has begun
\* only when every task of pass one is done; an engine is spawned or a request
\* issued only when the probe stage is over, every task of pass two done.
C16_StageBarriers ==
    /\ ppass >= 1 =>
           /\ \A i \in DOMAIN rpc : rpc[i] = "done"
           /\ spc = "done"
           /\ rlog # <<>>
           /\ rlog[Len(rlog)][1] = "save"
           /\ file # <<>>
           /\ LineSet(file) = {FormatLine(d, cache[d]) : d \in DOMAIN cache}
    /\ (ppass >= 2 /\ ping_count > 0) =>
           \A i \in DOMAIN ptask[1] : ptask[1][i].pc = "done"
    /\ (kpc # "idle" \/ events # <<>> \/ sent # {}) =>
           /\ ppass = 3
           /\ ping_count > 0 =>
                  /\ \A i \in DOMAIN ptask[1] : ptask[1][i].pc = "done"
                  /\ \A i \in DOMAIN ptask[2] : ptask[2][i].pc = "done"

\* C16 witness: two candidates were resolved, probed in both passes, and a
\* request was issued for the second of them
C16_Witness ==
    /\ Len(urls) = 2
    /\ ping_count = 2
    /\ Len(pin[2]) = 2
    /\ Len(pout[2]) = 2
    /\ \E r \in sent : r.pos = 1 \/ r.chunk = 1

\* The positions of the log where the cache was saved
SavesIn(log) == {k \in DOMAIN log : log[k][1] = "save"}

\* The domain a resolution task looked up
DomainOf(i) == ToLowercase(urls[i].host[1].v)

\* The cache is saved at most once, after every resolution task has completed
\* and after every get and insert; the resolve stage is over exactly when it
\* was saved; a failed save ends the run: no set of entities, no probe, no
\* engine, no result file.
SavedOnceAtTheEnd ==
    /\ Cardinality(SavesIn(rlog)) <= 1
    /\ \A k \in SavesIn(rlog) : k = Len(rlog)
    /\ SavesIn(rlog) # {} => \A i \in DOMAIN rpc : rpc[i] = "done"
    /\ (spc \in {"done", "failed"}) <=> (SavesIn(rlog) # {})
    /\ spc = "failed" =>
           /\ resolved = {}
           /\ ppass = 0
           /\ kpc = "idle"
           /\ opc = "idle"

\* C19: the cache is saved once, after every task, and every address a live
\* lookup obtained is in a line of the saved file.
C19_EveryLookupSaved ==
    /\ SavedOnceAtTheEnd
    /\ spc = "done" =>
           \A i \in DOMAIN urls :
               rlookup[i] # <<>> =>
                   <<DomainOf(i), IpToString(rlookup[i][1])>> \in LineSet(file)

\* C23: one live lookup per domain.  No two resolution tasks of a run both
\* look up the same domain, and the entities made from one domain carry one
\* address.
C23_OneLookupPerDomain ==
    \A i, j \in DOMAIN urls :
        (i # j /\ urls[i].host # <<>> /\ urls[j].host # <<>>
               /\ ToLowercase(urls[i].host[1].v) = ToLowercase(urls[j].host[1].v)) =>
            /\ ~(rlookup[i] # <<>> /\ rlookup[j] # <<>>)
            /\ (rent[i] # <<>> /\ rent[j] # <<>>) =>
                   rent[i][1].address = rent[j][1].address

\* C26: termination.  When every step that can be taken is eventually taken,
\* the run is eventually over, whatever the three caps, zero included.
C26_Terminates == <>RunOver

====
